---- MODULE Spec2Model ----
(***************************************************************************)
(* GameQAI: the test-session orchestrator (GameQATestRunner.run), the      *)
(* browser agent it drives, the retry helper, the evaluation engine        *)
(* (AIEvaluator), score fusion (ScoreCalculator) and the report builder.   *)
(*                                                                         *)
(* Numbers.  Confidences are kept as exact integers in units of            *)
(* 1/ConfScale, playability scores as integers 0..100 (the model's JSON    *)
(* may carry any integer).  Strings that the code inspects (the URL) are   *)
(* sequences of characters; messages built by template literals are        *)
(* sequences of their parts.  Timestamps and durations are not modelled.   *)
(***************************************************************************)
EXTENDS Integers, Sequences, FiniteSets, TLC

\* ------------------------------------------------------------------ bounds
\* most error-log entries the page reports in one collectLogs() call
MaxErrorLogs == 3
\* most console-log entries the page reports in one collectLogs() call
MaxConsoleLogs == 1

\* ------------------------------------------------------------- basic types
None == <<>>
Some(x) == <<x>>

\* unit of the confidence values: 0.01 is ConfUnit, 1.0 is ConfScale
ConfUnit == 60 * 2
ConfScale == 100 * ConfUnit

ErrorType ==
  {"BROWSER_CRASH", "API_FAILURE", "NETWORK_ERROR", "TIMEOUT",
   "VALIDATION_ERROR", "SCREENSHOT_FAILURE", "LLM_FAILURE", "FATAL"}

\* new GameQAError(type, message)
GameQAError(type, message) == [type |-> type, message |-> message]

\* new Error(message): an Error that is not a GameQAError
PlainError(message) == [type |-> "Error", message |-> message]

\* error instanceof GameQAError
IsGameQAError(e) == e.type \in ErrorType

\* s.startsWith(prefix)
StartsWith(s, prefix) ==
  /\ Len(s) >= Len(prefix)
  /\ SubSeq(s, 1, Len(prefix)) = prefix

\* s.includes(part), for sequences
Includes(s, part) ==
  \E i \in 0..(Len(s) - Len(part)) : SubSeq(s, i + 1, i + Len(part)) = part

HttpPrefix == <<"h", "t", "t", "p">>
GameUrl == HttpPrefix \o <<"s", ":", "/", "/", "g">>
RedirectedUrl == HttpPrefix \o <<"s", ":", "/", "/", "r">>
BadUrl == <<"b", "a", "d">>

\* the url arguments given to run()
Urls == {GameUrl, BadUrl, <<>>}

\* config.test.default_timeout
DefaultTimeout == 300000

\* the values of options.timeout (0: option not given)
TimeoutOptions == {0, 0 - 1000}

\* --------------------------------------------------------------- retry policy
RETRY_CONFIGS ==
  [BROWSER_CRASH |-> [maxRetries |-> 2, delay |-> 5000, backoff |-> "linear", factor |-> 0],
   API_FAILURE |-> [maxRetries |-> 2, delay |-> 2000, backoff |-> "exponential", factor |-> 2],
   NETWORK_ERROR |-> [maxRetries |-> 3, delay |-> 3000, backoff |-> "linear", factor |-> 0],
   TIMEOUT |-> [maxRetries |-> 1, delay |-> 1000, backoff |-> "linear", factor |-> 0],
   VALIDATION_ERROR |-> [maxRetries |-> 0, delay |-> 0, backoff |-> "none", factor |-> 0],
   SCREENSHOT_FAILURE |-> [maxRetries |-> 0, delay |-> 0, backoff |-> "none", factor |-> 0],
   LLM_FAILURE |-> [maxRetries |-> 2, delay |-> 2000, backoff |-> "exponential", factor |-> 2],
   FATAL |-> [maxRetries |-> 0, delay |-> 0, backoff |-> "none", factor |-> 0]]

RECURSIVE Pow(_, _)
Pow(b, n) == IF n = 0 THEN 1 ELSE b * Pow(b, n - 1)

\* faulty variant of calculateDelay: the exponent is one ahead
calculateDelayOneAhead(config, attempt) ==
  IF config.backoff = "exponential"
  THEN config.delay * Pow(IF config.factor = 0 THEN 2 ELSE config.factor, attempt + 1)
  ELSE config.delay

calculateDelay(config, attempt) ==
  IF config.backoff = "exponential"
  THEN config.delay * Pow(IF config.factor = 0 THEN 2 ELSE config.factor, attempt)
  ELSE config.delay

\* ------------------------------------------------------- evaluation engine
\* a ?? d, for an optional value
OrElse(opt, d) == IF opt = None THEN d ELSE opt[1]

\* parsed.<criterion>?.result ?? false, parsed.<criterion>?.confidence ?? 0.5
parseItem(optItem) ==
  IF optItem = None
  THEN [result |-> FALSE, confidence |-> 50 * ConfUnit]
  ELSE [result |-> OrElse(optItem[1].result, FALSE),
        confidence |-> OrElse(optItem[1].confidence, 50 * ConfUnit)]

Min(a, b) == IF a < b THEN a ELSE b
Max(a, b) == IF a > b THEN a ELSE b

\* AIEvaluator.parseResponse, after JSON.parse succeeded
parseResponse(parsed) ==
  LET conf == OrElse(parsed.confidence, 50 * ConfUnit)
      score == OrElse(parsed.playability_score, 0)
  IN [load_successful |-> parseItem(parsed.load_successful),
      controls_responsive |-> parseItem(parsed.controls_responsive),
      no_crashes |-> parseItem(parsed.no_crashes),
      playability_score |->
        IF score < 0 \/ score > 100 THEN Max(0, Min(100, score)) ELSE score,
      issues |-> OrElse(parsed.issues, <<>>),
      confidence |->
        IF conf < 0 \/ conf > ConfScale THEN 50 * ConfUnit ELSE conf]

\* interactions.filter((i) => i.success).length
SuccessCount(inter) == Cardinality({i \in DOMAIN inter : inter[i].success})

\* faulty variant of heuristicEvaluation: controls count as responsive only
\* when every interaction succeeded
heuristicEvaluationEverySucceeded(ev) ==
  LET errorCount == Len(ev.errors)
      hasScreenshots == Len(ev.screenshots) > 0
      hasInteractions == Len(ev.interactions) > 0
      loadSuccessful == hasScreenshots /\ errorCount = 0
      controlsResponsive ==
        hasInteractions /\ SuccessCount(ev.interactions) = Len(ev.interactions)
      noCrashes == errorCount = 0
      playabilityScore ==
        (IF loadSuccessful THEN 30 ELSE 0) + (IF controlsResponsive THEN 40 ELSE 0)
          + (IF noCrashes THEN 30 ELSE 0)
  IN [load_successful |->
        [result |-> loadSuccessful,
         confidence |-> IF loadSuccessful THEN 70 * ConfUnit ELSE 30 * ConfUnit],
      controls_responsive |->
        [result |-> controlsResponsive,
         confidence |-> IF controlsResponsive THEN 70 * ConfUnit ELSE 30 * ConfUnit],
      no_crashes |->
        [result |-> noCrashes,
         confidence |-> IF noCrashes THEN 80 * ConfUnit ELSE 20 * ConfUnit],
      playability_score |-> playabilityScore,
      issues |->
        (IF loadSuccessful THEN <<>> ELSE << <<"Game may not have loaded successfully">> >>)
          \o (IF controlsResponsive THEN <<>> ELSE << <<"Controls may not be responsive">> >>)
          \o (IF noCrashes THEN <<>> ELSE << <<"Detected ", ToString(errorCount), " errors">> >>),
      confidence |-> Min(60 * ConfUnit, playabilityScore * ConfUnit)]

\* AIEvaluator.heuristicEvaluation
heuristicEvaluation(ev) ==
  LET errorCount == Len(ev.errors)
      hasScreenshots == Len(ev.screenshots) > 0
      hasInteractions == Len(ev.interactions) > 0
      loadSuccessful == hasScreenshots /\ errorCount = 0
      controlsResponsive == hasInteractions /\ SuccessCount(ev.interactions) > 0
      noCrashes == errorCount = 0
      playabilityScore ==
        (IF loadSuccessful THEN 30 ELSE 0) + (IF controlsResponsive THEN 40 ELSE 0)
          + (IF noCrashes THEN 30 ELSE 0)
  IN [load_successful |->
        [result |-> loadSuccessful,
         confidence |-> IF loadSuccessful THEN 70 * ConfUnit ELSE 30 * ConfUnit],
      controls_responsive |->
        [result |-> controlsResponsive,
         confidence |-> IF controlsResponsive THEN 70 * ConfUnit ELSE 30 * ConfUnit],
      no_crashes |->
        [result |-> noCrashes,
         confidence |-> IF noCrashes THEN 80 * ConfUnit ELSE 20 * ConfUnit],
      playability_score |-> playabilityScore,
      issues |->
        (IF loadSuccessful THEN <<>> ELSE << <<"Game may not have loaded successfully">> >>)
          \o (IF controlsResponsive THEN <<>> ELSE << <<"Controls may not be responsive">> >>)
          \o (IF noCrashes THEN <<>> ELSE << <<"Detected ", ToString(errorCount), " errors">> >>),
      confidence |-> Min(60 * ConfUnit, playabilityScore * ConfUnit)]

\* a heuristic that answers with less confidence while the evaluator has no
\* Language Model client
heuristicEvaluationUsingClient(self, ev) ==
  [heuristicEvaluation(ev) EXCEPT
     !.confidence = IF self.openai = None THEN 0 ELSE @]

\* this.heuristicEvaluation(evidence) with its receiver: the method reads no
\* field of the evaluator (openai, config, useAWSSecrets)
heuristicEvaluationOf(self, ev) == heuristicEvaluation(ev)

\* faulty variant of retryAgain: one pass too many
retryAgainOnceMore(config, attempt) == attempt <= config.maxRetries

\* retry(): after a failed invocation, whether the loop waits and invokes fn
\* again (attempt < config.maxRetries) or ends and throws lastError
retryAgain(config, attempt) == attempt < config.maxRetries

\* ------------------------------------------------------------ score fusion
\* faulty variant of calculateHeuristicConfidence: an error-free Evidence
\* earns no points
calculateHeuristicConfidenceWithoutErrorPoints(ev) ==
  LET shots == Len(ev.screenshots)
      total == Len(ev.interactions)
      points ==
        (IF shots >= 5 THEN 20 ELSE IF shots >= 3 THEN 15 ELSE IF shots >= 1 THEN 10 ELSE 0)
          + (IF Len(ev.console_logs) > 0 THEN 15 ELSE 0)
          + (IF ev.ui_detection = None THEN 0
             ELSE IF Len(ev.ui_detection[1].buttons) > 0 \/ Len(ev.ui_detection[1].canvas) > 0
                  THEN 20 ELSE 10)
  IN points * ConfUnit
       + (IF total > 0 THEN (SuccessCount(ev.interactions) * 20 * ConfUnit) \div total ELSE 0)

\* faulty variant of calculateHeuristicConfidence: any UI detection earns the
\* full 20 points
calculateHeuristicConfidenceFlatUi(ev) ==
  LET shots == Len(ev.screenshots)
      errs == Len(ev.errors)
      total == Len(ev.interactions)
      points ==
        (IF shots >= 5 THEN 20 ELSE IF shots >= 3 THEN 15 ELSE IF shots >= 1 THEN 10 ELSE 0)
          + (IF Len(ev.console_logs) > 0 THEN 15 ELSE 0)
          + (IF errs = 0 THEN 25 ELSE IF errs <= 2 THEN 15 ELSE 5)
          + (IF ev.ui_detection = None THEN 0 ELSE 20)
  IN points * ConfUnit
       + (IF total > 0 THEN (SuccessCount(ev.interactions) * 20 * ConfUnit) \div total ELSE 0)

\* ScoreCalculator.calculateHeuristicConfidence: score / maxScore
calculateHeuristicConfidence(ev) ==
  LET shots == Len(ev.screenshots)
      errs == Len(ev.errors)
      total == Len(ev.interactions)
      points ==
        (IF shots >= 5 THEN 20 ELSE IF shots >= 3 THEN 15 ELSE IF shots >= 1 THEN 10 ELSE 0)
          + (IF Len(ev.console_logs) > 0 THEN 15 ELSE 0)
          + (IF errs = 0 THEN 25 ELSE IF errs <= 2 THEN 15 ELSE 5)
          + (IF ev.ui_detection = None THEN 0
             ELSE IF Len(ev.ui_detection[1].buttons) > 0 \/ Len(ev.ui_detection[1].canvas) > 0
                  THEN 20 ELSE 10)
  IN points * ConfUnit
       + (IF total > 0 THEN (SuccessCount(ev.interactions) * 20 * ConfUnit) \div total ELSE 0)

\* faulty variant of calculateConfidence: the model's confidence alone, not
\* fused with the heuristic confidence
calculateConfidenceLlmOnly(llmEvaluation, ev) ==
  Max(0, Min(ConfScale, llmEvaluation.confidence))

\* faulty variant of calculateConfidence: the weights the other way round,
\* 30% model and 70% heuristics
calculateConfidenceHeuristicWeighted(llmEvaluation, ev) ==
  LET combinedConfidence ==
        (llmEvaluation.confidence * 3 + calculateHeuristicConfidence(ev) * 7) \div 10
  IN Max(0, Min(ConfScale, combinedConfidence))

\* faulty variant of calculateConfidence: the larger of the two confidences
calculateConfidenceOptimistic(llmEvaluation, ev) ==
  Max(0, Min(ConfScale, Max(llmEvaluation.confidence, calculateHeuristicConfidence(ev))))

\* ScoreCalculator.calculateConfidence
calculateConfidence(llmEvaluation, ev) ==
  LET combinedConfidence ==
        (llmEvaluation.confidence * 7 + calculateHeuristicConfidence(ev) * 3) \div 10
  IN Max(0, Min(ConfScale, combinedConfidence))

\* ScoreCalculator.determineStatus: minScore
minScore == 70

\* ScoreCalculator.determineStatus: minConfidence (0.6)
minConfidence == 60 * ConfUnit

\* faulty variant of determineStatus: a confidence of exactly 0.6 is too low
determineStatusStrictConfidence(eval, confidence) ==
  IF confidence <= minConfidence THEN "partial"
  ELSE IF eval.playability_score >= minScore
       THEN IF eval.load_successful.result /\ eval.controls_responsive.result
                 /\ eval.no_crashes.result
            THEN "pass" ELSE "partial"
       ELSE "fail"

\* faulty variant of determineStatus: the three criteria are not consulted
determineStatusIgnoringCriteria(eval, confidence) ==
  IF confidence < minConfidence THEN "partial"
  ELSE IF eval.playability_score >= minScore THEN "pass"
  ELSE "fail"

\* ScoreCalculator.determineStatus
determineStatus(eval, confidence) ==
  IF confidence < minConfidence THEN "partial"
  ELSE IF eval.playability_score >= minScore
       THEN IF eval.load_successful.result /\ eval.controls_responsive.result
                 /\ eval.no_crashes.result
            THEN "pass" ELSE "partial"
       ELSE "fail"

\* --------------------------------------------------------- report assembly
\* a.length || 0 + b.length || 0 + c.length || 0, as JavaScript parses it
uiElementsDetected(ui) ==
  IF ui = None THEN 0
  ELSE IF Len(ui[1].buttons) # 0 THEN Len(ui[1].buttons)
  ELSE IF Len(ui[1].canvas) # 0 THEN Len(ui[1].canvas)
  ELSE Len(ui[1].menus)

\* ReportBuilder.validate
validate(rep) ==
  /\ rep.status \in {"pass", "fail", "partial", "error"}
  /\ ~(rep.playability_score < 0 \/ rep.playability_score > 100)
  /\ ~(rep.confidence < 0 \/ rep.confidence > ConfScale)
  /\ rep.game_url # <<>>
  /\ rep.session_id # ""

\* ReportBuilder.build, the report it assembles before validating it
buildReportValue(ev, eval) ==
  LET confidence == calculateConfidence(eval, ev)
  IN [status |-> determineStatus(eval, confidence),
      playability_score |-> eval.playability_score,
      confidence |-> confidence,
      game_url |-> ev.game_url,
      session_id |-> ev.session_id,
      evaluations |->
        [load_successful |-> eval.load_successful,
         controls_responsive |-> eval.controls_responsive,
         no_crashes |-> eval.no_crashes],
      issues |-> eval.issues,
      screenshots |-> [i \in DOMAIN ev.screenshots |-> ev.screenshots[i].file_path],
      metadata |->
        [interactions_count |-> Len(ev.interactions),
         errors_count |-> Len(ev.errors),
         screenshots_count |-> Len(ev.screenshots),
         ui_elements_detected |-> uiElementsDetected(ev.ui_detection)]]

\* error instanceof Error ? error.message : 'Unknown error'
messageOf(e) == IF e.type = "NotAnError" THEN <<"Unknown error">> ELSE e.message

\* faulty variant of handleError: the issue does not carry the error's message
handleErrorWithoutMessage(error, u, sid) ==
  [status |-> "error",
   playability_score |-> 0,
   confidence |-> 0,
   game_url |-> u,
   session_id |-> sid,
   evaluations |->
     [load_successful |-> [result |-> FALSE, confidence |-> 0],
      controls_responsive |-> [result |-> FALSE, confidence |-> 0],
      no_crashes |-> [result |-> FALSE, confidence |-> 0]],
   issues |-> << <<"Test execution failed">> >>,
   screenshots |-> <<>>,
   metadata |->
     [interactions_count |-> 0, errors_count |-> 1, screenshots_count |-> 0,
      ui_elements_detected |-> 0]]

\* faulty variant of handleError: a sentinel score outside 0..100
handleErrorSentinel(error, u, sid) ==
  [status |-> "error",
   playability_score |-> 0 - 1,
   confidence |-> 0,
   game_url |-> u,
   session_id |-> sid,
   evaluations |->
     [load_successful |-> [result |-> FALSE, confidence |-> 0],
      controls_responsive |-> [result |-> FALSE, confidence |-> 0],
      no_crashes |-> [result |-> FALSE, confidence |-> 0]],
   issues |-> << <<"Test execution failed: ">> \o messageOf(error) >>,
   screenshots |-> <<>>,
   metadata |->
     [interactions_count |-> 0, errors_count |-> 1, screenshots_count |-> 0,
      ui_elements_detected |-> 0]]

\* GameQATestRunner.handleError
handleError(error, u, sid) ==
  [status |-> "error",
   playability_score |-> 0,
   confidence |-> 0,
   game_url |-> u,
   session_id |-> sid,
   evaluations |->
     [load_successful |-> [result |-> FALSE, confidence |-> 0],
      controls_responsive |-> [result |-> FALSE, confidence |-> 0],
      no_crashes |-> [result |-> FALSE, confidence |-> 0]],
   issues |-> << <<"Test execution failed: ">> \o messageOf(error) >>,
   screenshots |-> <<>>,
   metadata |->
     [interactions_count |-> 0, errors_count |-> 1, screenshots_count |-> 0,
      ui_elements_detected |-> 0]]

\* the error the handler throws for a missing or non-http url
InvalidUrlError == PlainError(<<"Invalid URL. Must start with http:// or https://">>)

\* the error new GameQATestRunner() throws when the configuration is invalid
ConfigurationError ==
  PlainError(<<"Configuration validation failed: ", "BROWSERBASE_API_KEY is required">>)

\* a catch block that reports no issue
handlerErrorResultWithoutIssue(error, u) ==
  [status |-> "error",
   playability_score |-> 0,
   confidence |-> 0,
   game_url |-> u,
   session_id |-> "error",
   evaluations |->
     [load_successful |-> [result |-> FALSE, confidence |-> 0],
      controls_responsive |-> [result |-> FALSE, confidence |-> 0],
      no_crashes |-> [result |-> FALSE, confidence |-> 0]],
   issues |-> <<>>,
   screenshots |-> <<>>,
   metadata |->
     [interactions_count |-> 0, errors_count |-> 1, screenshots_count |-> 0,
      ui_elements_detected |-> 0]]

\* the handler's catch block (Lambda entry point)
handlerErrorResult(error, u) ==
  [status |-> "error",
   playability_score |-> 0,
   confidence |-> 0,
   game_url |-> u,
   session_id |-> "error",
   evaluations |->
     [load_successful |-> [result |-> FALSE, confidence |-> 0],
      controls_responsive |-> [result |-> FALSE, confidence |-> 0],
      no_crashes |-> [result |-> FALSE, confidence |-> 0]],
   issues |-> << messageOf(error) >>,
   screenshots |-> <<>>,
   metadata |->
     [interactions_count |-> 0, errors_count |-> 1, screenshots_count |-> 0,
      ui_elements_detected |-> 0]]

\* JSON.stringify(result, null, 2): the members of the JSON object it writes
stringify(r) == {<<k, r[k]>> : k \in DOMAIN r}

\* JSON.parse of such a text: the object with those members
parse(text) ==
  [k \in {m[1] : m \in text} |-> (CHOOSE m \in text : m[1] = k)[2]]

\* an exit code that treats a partial verdict as success
exitCodeLenient(status) == IF status \in {"pass", "partial"} THEN 0 ELSE 1

\* main(): the exit code chosen from result.status
exitCodeOf(status) ==
  IF status = "pass" THEN 0
  ELSE IF status = "partial" THEN 1
  ELSE 1

\* ------------------------------------------------------------ browser agent
\* what the remote browser service may do during one loadGame call:
\* whether sessions.create and sessions.navigate succeed, and the time that
\* has passed when waitForLoad first looks at the clock
WaitElapsed == {0, 1}

\* BrowserAgent.waitForLoad: Date.now() - startTime > timeout
waitForLoadTimesOut(elapsed, t) == elapsed > t

\* BrowserAgent.loadGame: the agent's session, the remote calls made and the
\* error raised (None when the game loaded)
loadGame(sess, nCreated, navs, u, t, createOk, navOk, elapsed) ==
  IF u = <<>> \/ ~StartsWith(u, HttpPrefix)
  THEN [session |-> sess, created |-> nCreated, navigations |-> navs,
        error |-> Some(GameQAError("VALIDATION_ERROR",
                   <<"Invalid URL format. Must start with http:// or https://">>))]
  ELSE IF sess = None /\ ~createOk
  THEN [session |-> sess, created |-> nCreated, navigations |-> navs,
        error |-> Some(GameQAError("BROWSER_CRASH",
                   <<"Failed to load game: ", "sessions.create failed">>))]
  ELSE
    LET s1 == IF sess = None
              THEN Some([sessionId |-> nCreated + 1, isActive |-> TRUE]) ELSE sess
        c1 == IF sess = None THEN nCreated + 1 ELSE nCreated
        n1 == Append(navs, s1[1].sessionId)
    IN IF ~navOk
       THEN [session |-> s1, created |-> c1, navigations |-> n1,
             error |-> Some(GameQAError("BROWSER_CRASH",
                        <<"Failed to load game: ", "sessions.navigate failed">>))]
       ELSE IF waitForLoadTimesOut(elapsed, t)
       THEN [session |-> s1, created |-> c1, navigations |-> n1,
             error |-> Some(GameQAError("TIMEOUT",
                        <<"Page load timeout after ", ToString(t), "ms">>))]
       ELSE [session |-> s1, created |-> c1, navigations |-> n1, error |-> None]

\* BrowserAgent.executeScript succeeds only on an active session
scriptRuns(sess, remoteOk) == sess # None /\ sess[1].isActive /\ remoteOk

\* faulty variant of close: the session is forgotten only when the delete
\* succeeded (this.session = null inside the try block)
closeKeepingSessionOnFailure(sess, deleteOk) ==
  IF sess = None \/ ~sess[1].isActive
  THEN [session |-> sess, issued |-> None, failed |-> FALSE, threw |-> None]
  ELSE [session |-> IF deleteOk THEN None ELSE sess,
        issued |-> Some(sess[1].sessionId), failed |-> ~deleteOk, threw |-> None]

\* BrowserAgent.close: the session afterwards, the delete it issued (None if
\* there was no active session), whether the delete failed; close never throws
close(sess, deleteOk) ==
  IF sess = None \/ ~sess[1].isActive
  THEN [session |-> sess, issued |-> None, failed |-> FALSE, threw |-> None]
  ELSE [session |-> None, issued |-> Some(sess[1].sessionId),
        failed |-> ~deleteOk, threw |-> None]

\* ---------------------------------------------------------- evidence capture
\* EvidenceCapture.takeScreenshot: the list after the call; it never throws
takeScreenshot(shots, index, description, sid, ok) ==
  Append(shots,
    [index |-> index,
     file_path |-> <<sid, "/screenshots/screenshot-", ToString(index),
                     IF ok THEN ".png" ELSE "_failed.png">>,
     description |-> IF ok THEN <<description>> ELSE <<description, " (failed)">>])

\* the UI detection results the page may give
UiResults ==
  {[buttons |-> <<>>, canvas |-> <<>>, menus |-> <<>>],
   [buttons |-> << <<"q", "u", "i", "t">>, <<"p", "l", "a", "y">> >>,
    canvas |-> <<"canvas:nth-of-type(1)">>, menus |-> <<>>],
   [buttons |-> << <<"q", "u", "i", "t">> >>, canvas |-> <<>>,
    menus |-> <<"nav:nth-of-type(1)">>]}

\* btn.text?.toLowerCase().includes('start') || ...includes('play')
isStartButton(text) ==
  Includes(text, <<"s", "t", "a", "r", "t">>) \/ Includes(text, <<"p", "l", "a", "y">>)

\* uiDetection.buttons.find(...) is defined
hasStartButton(ui) ==
  /\ ui # None
  /\ \E i \in DOMAIN ui[1].buttons : isStartButton(ui[1].buttons[i])

click(success) == [type |-> "click", action |-> "click", success |-> success]
pressKey(key, success) == [type |-> "keyboard", action |-> key, success |-> success]

\* the outcomes of the three key presses of the gameplay sequence
KeyOutcomes == {<<TRUE, TRUE, TRUE>>, <<TRUE, FALSE, TRUE>>, <<FALSE, FALSE, FALSE>>}

\* GameQATestRunner.sessionId, set by the constructor
RunnerSessionId == "session-1"

\* n entries of a log list
Entries(n, e) == [i \in 1..n |-> e]

\* --------------------------------------------------- language model replies
Item(r, c) == Some([result |-> Some(r), confidence |-> Some(c * ConfUnit)])

Json(l, c, n, ic, score, conf) ==
  [load_successful |-> Item(l, ic), controls_responsive |-> Item(c, ic),
   no_crashes |-> Item(n, ic), playability_score |-> Some(score),
   issues |-> Some(<< <<"reported by the model">> >>),
   confidence |-> Some(conf * ConfUnit)]

\* a JSON object without any of the expected fields
EmptyJson ==
  [load_successful |-> None, controls_responsive |-> None, no_crashes |-> None,
   playability_score |-> None, issues |-> None, confidence |-> None]

\* the JSON objects the model may answer with (confidences in hundredths)
LlmJsons ==
  {Json(l, c, n, 90, 70, 90) : l \in BOOLEAN, c \in BOOLEAN, n \in BOOLEAN}
    \cup {Json(TRUE, TRUE, TRUE, 90, sc, 90) : sc \in {0 - 10, 10, 69, 150}}
    \cup {Json(TRUE, TRUE, TRUE, 90, 70, cf) : cf \in {0 - 50, 0, 60, 150}}
    \cup {Json(TRUE, TRUE, TRUE, ic, 70, 90) : ic \in {0 - 20, 150}}
    \cup {Json(FALSE, FALSE, FALSE, 0, 0, 0), EmptyJson}

\* how one evaluate() call can go at the Language Model Service
LlmReplies ==
  {[kind |-> k, json |-> EmptyJson] :
     k \in {"initFailed", "callFailed", "empty", "unparseable"}}
    \cup {[kind |-> "ok", json |-> j] : j \in LlmJsons}

\* completion of a call: it returned a value or threw an error
Return(v) == [kind |-> "return", value |-> v]
Throw(e) == [kind |-> "throw", value |-> e]

\* AIEvaluator.evaluate
evaluate(ev, reply) ==
  IF reply.kind = "initFailed"
  THEN Throw(GameQAError("VALIDATION_ERROR", <<"OpenAI API key is required">>))
  ELSE IF reply.kind = "callFailed"
  THEN Return(heuristicEvaluation(ev))
  ELSE IF reply.kind = "empty"
  THEN Throw(GameQAError("LLM_FAILURE", <<"No response from LLM">>))
  ELSE IF reply.kind = "unparseable"
  THEN Throw(GameQAError("LLM_FAILURE",
               <<"Failed to parse LLM response: ", "Unexpected token">>))
  ELSE Return(parseResponse(reply.json))

\* AIEvaluator.evaluate: how often it invokes client.chat.completions.create
\* (not at all when getClient() throws, once otherwise)
evaluateCalls(reply) == IF reply.kind = "initFailed" THEN 0 ELSE 1

\* which evaluator produced the value evaluate() returned
evaluatorUsed(reply) ==
  IF reply.kind = "callFailed" THEN "heuristic"
  ELSE IF reply.kind = "ok" THEN "llm" ELSE "none"

\* faulty variant of ReportBuilder.build: the report is returned unvalidated
buildUnvalidated(ev, eval) == Return(buildReportValue(ev, eval))

\* ReportBuilder.build
build(ev, eval) ==
  LET rep == buildReportValue(ev, eval)
  IN IF validate(rep) THEN Return(rep)
     ELSE Throw(PlainError(<<"Invalid report structure">>))

\* faulty variant of detectUI: the detector's error is not caught
detectUIThrowing(sess, ok, found) ==
  IF scriptRuns(sess, ok) THEN Return(Some(found))
  ELSE Throw(GameQAError("BROWSER_CRASH",
               <<"UI pattern detection failed: ", "Script execution failed">>))

\* GameQATestRunner.detectUI: the detector's result, or null when
\* UIPatternDetector.detect throws
detectUI(sess, ok, found) ==
  IF scriptRuns(sess, ok) THEN Return(Some(found)) ELSE Return(None)

\* ArtifactStorage: the artifacts saveArtifacts writes, in order
ArtifactKinds == <<"console_logs", "error_logs", "metadata", "report">>

\* ------------------------------------------------------------ orchestrator
\* faulty variant of run()'s catch block: the error is thrown again
runCatchRethrowing(error, u, sid) == Throw(error)

\* run(): catch (error) { return this.handleError(error, url) }
runCatch(error, u, sid) == Return(handleError(error, u, sid))

\* faulty variant of run(): cleanup at the end of the try block, no finally
cleanupRunsAfterTryOnly(after) == after = "try"

\* run(): the finally block runs cleanup after the try block ("try") and
\* after the catch block ("catch")
cleanupRuns(after) == after \in {"try", "catch"}

\* faulty variant of cleanup: a failed close is thrown on, not logged
cleanupPropagating(sess, deleteOk) ==
  LET c == close(sess, deleteOk)
  IN [session |-> c.session, issued |-> c.issued, failed |-> c.failed,
      threw |-> IF c.failed THEN Some(PlainError(<<"sessions.delete failed">>))
                ELSE None]

\* GameQATestRunner.cleanup: try { await browserAgent.close() } catch { warn }
cleanup(sess, deleteOk) ==
  LET c == close(sess, deleteOk)
  IN [session |-> c.session, issued |-> c.issued, failed |-> c.failed, threw |-> None]

\* config.test.max_retries
DefaultMaxRetries == 3

\* the values of options.max_retries a caller passes (0: not given)
MaxRetriesOptions == {0, 5}

\* maxRetries = options.max_retries || config.test.max_retries
maxRetriesOf(option) == IF option = 0 THEN DefaultMaxRetries ELSE option

\* faulty variant of loadRetryConfig: the caller's max_retries sets the budget
loadRetryConfigFromOptions(retries) ==
  [RETRY_CONFIGS["BROWSER_CRASH"] EXCEPT !.maxRetries = retries]

\* run() step 1: retryWithType(() => this.loadGame(...), ErrorType.BROWSER_CRASH)
loadRetryConfig(retries) == RETRY_CONFIGS["BROWSER_CRASH"]

\* the steps of run()'s try block, in the order of its statements
\* (executeInteractions is click, sequence, midshot, finalshot)
RunSteps ==
  <<"load", "observe", "detect", "listen", "click", "sequence", "midshot",
    "finalshot", "capture", "evaluate", "build", "save">>

StepIndex(step) == CHOOSE i \in DOMAIN RunSteps : RunSteps[i] = step

\* faulty variant of nextStep: UI detection is left out
nextStepWithoutDetection(step) ==
  IF step = "observe" THEN "listen" ELSE RunSteps[StepIndex(step) + 1]

\* the statement of the try block that follows a completed step
nextStep(step) == RunSteps[StepIndex(step) + 1]

\* timeout = options.timeout || config.test.default_timeout
timeoutOf(option) == IF option = 0 THEN DefaultTimeout ELSE option

VARIABLES
  pc,            \* position of run(): idle, load, ..., caught, cleanup, done
  url,           \* run()'s url argument
  timeout,       \* run()'s local timeout
  attempt,       \* retry(): the loop variable
  lastError,     \* retry(): lastError (None before the first failure)
  delays,        \* the delays waited so far by the pending retry() call
  loadCalls,     \* invocations of loadGame by the pending retry() call
  session,       \* BrowserAgent.session: None or Some([sessionId, isActive])
  created,       \* remote sessions created by sessions.create
  navigations,   \* session ids sessions.navigate was invoked with by the
                 \* pending retry() call
  deletes,       \* session ids sessions.delete was invoked with
  closeCalls,    \* number of invocations of BrowserAgent.close
  closeFailed,   \* whether sessions.delete failed in this run
  screenshots,   \* EvidenceCapture.screenshots
  interactions,  \* InteractionHandler.interactions
  isListening,   \* ConsoleLogger.isListening
  uiDetection,   \* run(): uiDetection (None is null)
  evidence,      \* run(): evidence (None before captureEvidence)
  evaluation,    \* run(): evaluation (None before evaluateEvidence)
  llmReply,      \* how the Language Model Service answered evaluate() (None before)
  evalSource,    \* which evaluator produced it: "none", "llm", "heuristic"
  report,        \* run(): report (None before buildReport)
  saved,         \* artifact kinds written by ArtifactStorage
  thrown,        \* the error caught by run()'s catch (None if none)
  pending,       \* completion of run()'s try/catch, held while finally runs
  result,        \* what run() resolved to (None before)
  outcome,       \* "pending", "resolved" or "rejected"
  handlerResult, \* what the Lambda handler returned (None before)
  llmCalls, \* invocations of client.chat.completions.create by evaluate()
  overrun, \* whether Date.now() - startTime exceeded timeout when INTERACT ended
  maxRetries,    \* run()'s local maxRetries (read by the opening log line only)
  stdout,        \* what the CLI wrote with console.log
  exitCode,      \* the code the CLI passed to process.exit (None before)
  retryKind,     \* retryWithType(fn, errorType): errorType ("none": not called)
  retryOp,       \* fn: whether its 1st, 2nd, ... invocation resolves
  retryCalls,    \* invocations of fn made by retry()
  retryAttempt,  \* retry(): the loop variable
  retryLastError,\* retry(): lastError
  retryDelays,   \* the delays retry() has waited, in order
  retryDone,     \* completion of retryWithType (None while pending)
  earlierRuns,   \* run() invocations that ended earlier on this runner
  carried,       \* what the runner's collaborators held when this run()
                 \* began: numbers of screenshots, interactions and remote
                 \* sessions created
  useAWSSecrets, \* AIEvaluator.useAWSSecrets (None before the constructor)
  openai,        \* AIEvaluator.openai: None or Some(client)
  aiConfig,      \* AIEvaluator.config is loaded
  clientsBuilt,   \* number of new OpenAI(...) executed
  evalPc,        \* position of each evaluate() call in getClient()
  clientOf,      \* the client getClient() returned to each evaluate() call
  scPc,          \* evaluation engine on its own: position of the caller
  scSelf,        \* the AIEvaluator's fields when heuristicEvaluation is called
  scEvidence,    \* the Evidence handed to the engine (None before)
  scEval,        \* the EvaluationResult of the evaluator (None before)
  scSource,      \* which evaluator produced it: "none", "llm", "heuristic"
  scSecond,      \* the result of a second heuristicEvaluation of scEvidence
  scReport,      \* completion of ReportBuilder.build (None before)
  secCache,      \* SecretsManager.cache: cache key -> None or Some(entry)
  secNow,        \* Date.now()
  secTicks,      \* how often the clock has advanced
  secPc,         \* getSecret: "idle", "fetching", "returned" or "failed"
  secCall,       \* the latest getSecret call: its arguments, the cache entry
                 \* and the time it found, and how it ended (None before)
  configInstance,\* ConfigManager: configInstance (None: null; Some(n): the
                 \* object the n-th loadConfig() resolved with)
  configPromise, \* ConfigManager: configPromise (None: null; Some(n): the
                 \* promise of the n-th loadConfig())
  cfgPromises,   \* state of the promise of each loadConfig() invocation
  cfgLoads,      \* invocations of loadConfig
  cfgPc,         \* each getConfig() caller: idle, awaiting, returned, threw
  cfgAwaited,    \* the promise the caller's latest getConfig() awaited (0: none)
  cfgGot,        \* the object the caller's latest getConfig() resolved with
  cfgQueue,      \* the suspended getConfig() calls, in the order of their await
  cfgResets,     \* invocations of resetConfig
  cfgFresh       \* resetConfig() was called and getConfig() not since

runnerVars ==
  <<pc, url, timeout, attempt, lastError, delays, loadCalls, session,
    created, navigations, deletes, closeCalls, closeFailed, screenshots,
    interactions, isListening, uiDetection, evidence, evaluation, llmReply,
    evalSource, report, saved, thrown, pending, result, outcome, handlerResult,
    llmCalls, overrun, maxRetries, stdout, exitCode>>

retryCallVars ==
  <<retryKind, retryOp, retryCalls, retryAttempt, retryLastError, retryDelays, retryDone>>

sessionVars == <<earlierRuns, carried>>

clientVars == <<useAWSSecrets, openai, aiConfig, clientsBuilt, evalPc, clientOf>>

scoreVars == <<scPc, scSelf, scEvidence, scEval, scSource, scSecond, scReport>>

secretVars == <<secCache, secNow, secTicks, secPc, secCall>>

configVars ==
  <<configInstance, configPromise, cfgPromises, cfgLoads, cfgPc, cfgAwaited,
    cfgGot, cfgQueue, cfgResets, cfgFresh>>

harnessVars ==
  <<retryCallVars, sessionVars, clientVars, scoreVars, secretVars, configVars>>

vars == <<runnerVars, harnessVars>>

argVars == <<url, timeout>>
cliVars == <<stdout, exitCode>>
retryVars == <<attempt, lastError, delays, loadCalls>>
agentVars == <<session, created, navigations, deletes, closeCalls, closeFailed>>
captureVars == <<screenshots, interactions, isListening>>
localVars == <<uiDetection, evidence, evaluation, llmReply, evalSource, report>>
endVars == <<saved, thrown, pending, result, outcome, handlerResult>>

\* no retryWithType call of a library user is pending
RetryIdle ==
  /\ retryKind = "none"
  /\ retryOp = <<>>
  /\ retryCalls = 0
  /\ retryAttempt = 0
  /\ retryLastError = None
  /\ retryDelays = <<>>
  /\ retryDone = None

\* the evaluate() calls that may be in flight on one AIEvaluator
MaxEvals == 3

Evals == 1..MaxEvals

\* no AIEvaluator has been clientsBuilt
ClientIdle ==
  /\ useAWSSecrets = None
  /\ openai = None
  /\ aiConfig = FALSE
  /\ clientsBuilt = 0
  /\ evalPc = [e \in Evals |-> "idle"]
  /\ clientOf = [e \in Evals |-> None]

\* the state after new GameQATestRunner()
\* a secret name, and the same name followed by ":k"
SecretNames == {<<"s">>, <<"s", ":", "k">>}

\* the key argument of getSecret: absent, or the key "k" of a JSON secret
SecretKeys == {None, Some(<<"k">>)}

\* getSecret: cacheKey = key ? `${secretName}:${key}` : secretName
cacheKey(secretName, key) ==
  IF key # None /\ key[1] # <<>> THEN secretName \o <<":">> \o key[1] ELSE secretName

\* the keys the cache may hold
CacheKeys == {cacheKey(n, k) : n \in SecretNames, k \in SecretKeys}

\* new SecretsManager(): an empty cache
SecretsIdle ==
  /\ secCache = [c \in CacheKeys |-> None]
  /\ secNow = 0
  /\ secTicks = 0
  /\ secPc = "idle"
  /\ secCall = None

\* how many modules call getConfig() in the configuration scenario
MaxCallers == 3

\* how many loadConfig() and resetConfig() invocations the scenario follows
MaxLoads == 3
MaxResets == 2

ConfigCallers == 1..MaxCallers

\* ConfigManager after the module was loaded: configInstance and
\* configPromise are null, nobody has called getConfig()
ConfigIdle ==
  /\ configInstance = None
  /\ configPromise = None
  /\ cfgPromises = [p \in 1..MaxLoads |-> "none"]
  /\ cfgLoads = 0
  /\ cfgPc = [c \in ConfigCallers |-> "idle"]
  /\ cfgAwaited = [c \in ConfigCallers |-> 0]
  /\ cfgGot = [c \in ConfigCallers |-> None]
  /\ cfgQueue = <<>>
  /\ cfgResets = 0
  /\ cfgFresh = FALSE

\* no Evidence has been handed to the evaluation engine yet
ScoreIdle ==
  /\ scPc = "idle"
  /\ scSelf = None
  /\ scEvidence = None
  /\ scEval = None
  /\ scSource = "none"
  /\ scSecond = None
  /\ scReport = None

Init ==
  /\ pc = "idle"
  /\ url = <<>>
  /\ timeout = 0
  /\ attempt = 0
  /\ lastError = None
  /\ delays = <<>>
  /\ loadCalls = 0
  /\ session = None
  /\ created = 0
  /\ navigations = <<>>
  /\ deletes = <<>>
  /\ closeCalls = 0
  /\ closeFailed = FALSE
  /\ screenshots = <<>>
  /\ interactions = <<>>
  /\ isListening = FALSE
  /\ uiDetection = None
  /\ evidence = None
  /\ evaluation = None
  /\ llmReply = None
  /\ evalSource = "none"
  /\ report = None
  /\ saved = <<>>
  /\ thrown = None
  /\ pending = None
  /\ result = None
  /\ outcome = "pending"
  /\ handlerResult = None
  /\ llmCalls = 0
  /\ overrun = FALSE
  /\ maxRetries = 0
  /\ stdout = <<>>
  /\ exitCode = None
  /\ RetryIdle
  /\ earlierRuns = 0
  /\ carried = [shots |-> 0, interactions |-> 0, created |-> 0]
  /\ ClientIdle
  /\ ScoreIdle
  /\ SecretsIdle
  /\ ConfigIdle

\* run(url, options), called by a library user
Run ==
  /\ pc = "idle"
  /\ \E u \in Urls, option \in TimeoutOptions :
       /\ url' = u
       /\ timeout' = timeoutOf(option)
  /\ \E retries \in MaxRetriesOptions : maxRetries' = maxRetriesOf(retries)
  /\ pc' = "load"
  /\ UNCHANGED <<harnessVars, cliVars, overrun, llmCalls, retryVars, agentVars, captureVars, localVars, endVars>>

\* handler(event): the Lambda entry point up to its call of run()
HandlerInvoke ==
  /\ pc = "idle"
  /\ \E u \in Urls, option \in TimeoutOptions, constructed \in BOOLEAN,
        retries \in MaxRetriesOptions :
       /\ url' = u
       /\ IF u = <<>> \/ ~StartsWith(u, HttpPrefix)
          THEN /\ handlerResult' = Some(handlerErrorResult(InvalidUrlError, u))
               /\ pc' = "handlerDone"
               /\ timeout' = timeout
               /\ maxRetries' = maxRetries
          ELSE IF ~constructed
          THEN /\ handlerResult' = Some(handlerErrorResult(ConfigurationError, u))
               /\ pc' = "handlerDone"
               /\ timeout' = timeout
               /\ maxRetries' = maxRetries
          ELSE /\ handlerResult' = handlerResult
               /\ pc' = "load"
               /\ timeout' = timeoutOf(option)
               /\ maxRetries' = maxRetriesOf(retries)
  /\ UNCHANGED <<harnessVars, cliVars, overrun, llmCalls, retryVars, agentVars, captureVars, localVars,
                 saved, thrown, pending, result, outcome>>

\* main(): the CLI up to its call of run(). It loads the configuration,
\* parses the arguments (none: usage, exit 2), checks the url (exit 1) and
\* constructs the runner; an error thrown on the way is caught (exit 2)
CliInvoke ==
  /\ pc = "idle"
  /\ \E configOk \in BOOLEAN, given \in BOOLEAN, u \in Urls,
        option \in TimeoutOptions, constructed \in BOOLEAN :
       IF ~configOk \/ ~given
       THEN /\ exitCode' = Some(2)
            /\ pc' = "cliDone"
            /\ UNCHANGED <<url, timeout, maxRetries>>
       ELSE IF u = <<>> \/ ~StartsWith(u, HttpPrefix)
       THEN /\ url' = u
            /\ exitCode' = Some(1)
            /\ pc' = "cliDone"
            /\ UNCHANGED <<timeout, maxRetries>>
       ELSE IF ~constructed
       THEN /\ url' = u
            /\ exitCode' = Some(2)
            /\ pc' = "cliDone"
            /\ UNCHANGED <<timeout, maxRetries>>
       ELSE /\ url' = u
            /\ timeout' = timeoutOf(option)
            /\ maxRetries' = maxRetriesOf(0)
            /\ exitCode' = exitCode
            /\ pc' = "load"
  /\ UNCHANGED <<harnessVars, stdout, overrun, llmCalls, retryVars, agentVars, captureVars,
                 localVars, endVars>>

\* one pass of retry()'s loop around BrowserAgent.loadGame (run() step 1).
\* When retry() returns, its frame (attempt, lastError) is gone, and so are
\* the observations of that call (delays, loadCalls, navigations) and run()'s
\* maxRetries, which nothing reads after the opening log line; when it
\* throws, they are kept for inspection.
LoadGameAttempt ==
  /\ pc = "load"
  /\ \E createOk \in BOOLEAN, navOk \in BOOLEAN, elapsed \in WaitElapsed :
       LET out == loadGame(session, created, navigations, url, timeout,
                           createOk, navOk, elapsed)
           config == loadRetryConfig(maxRetries)
       IN /\ session' = out.session
          /\ created' = out.created
          /\ IF out.error = None
             THEN /\ pc' = nextStep("load")
                  /\ attempt' = 0
                  /\ lastError' = None
                  /\ delays' = <<>>
                  /\ loadCalls' = 0
                  /\ navigations' = <<>>
                  /\ maxRetries' = 0
                  /\ thrown' = thrown
             ELSE /\ maxRetries' = maxRetries
                  /\ lastError' = out.error
                  /\ navigations' = out.navigations
                  /\ loadCalls' = loadCalls + 1
                  /\ IF retryAgain(config, attempt)
                     THEN /\ delays' = Append(delays, calculateDelay(config, attempt))
                          /\ attempt' = attempt + 1
                          /\ pc' = "load"
                          /\ thrown' = thrown
                     ELSE /\ thrown' = out.error
                          /\ pc' = "caught"
                          /\ UNCHANGED <<attempt, delays>>
  /\ UNCHANGED <<harnessVars, cliVars, overrun, llmCalls, argVars, deletes, closeCalls, closeFailed, captureVars, localVars,
                 saved, pending, result, outcome, handlerResult>>

\* captureInitialScreenshot (run() step 2)
CaptureInitialScreenshot ==
  /\ pc = "observe"
  /\ \E ok \in BOOLEAN :
       screenshots' = takeScreenshot(screenshots, 0, "Initial page load",
                                     RunnerSessionId, scriptRuns(session, ok))
  /\ pc' = nextStep("observe")
  /\ UNCHANGED <<harnessVars, cliVars, maxRetries, overrun, llmCalls, argVars, retryVars, agentVars, interactions, isListening,
                 localVars, endVars>>

\* detectUI (run() step 3): a failed detection gives null
DetectUI ==
  /\ pc = "detect"
  /\ \E ok \in BOOLEAN, found \in UiResults :
       LET done == detectUI(session, ok, found)
       IN IF done.kind = "return"
          THEN /\ uiDetection' = done.value
               /\ pc' = nextStep("detect")
               /\ thrown' = thrown
          ELSE /\ thrown' = Some(done.value)
               /\ pc' = "caught"
               /\ uiDetection' = uiDetection
  /\ UNCHANGED <<saved, pending, result, outcome, handlerResult, harnessVars, cliVars, maxRetries, overrun, llmCalls, argVars, retryVars, agentVars, captureVars, evidence, evaluation,
                 llmReply, evalSource, report>>

\* consoleLogger.startListening (run() step 4)
StartListening ==
  /\ pc = "listen"
  /\ \E ok \in BOOLEAN :
       IF isListening
       THEN /\ pc' = nextStep("listen")
            /\ UNCHANGED <<isListening, thrown>>
       ELSE IF scriptRuns(session, ok)
       THEN /\ isListening' = TRUE
            /\ pc' = nextStep("listen")
            /\ thrown' = thrown
       ELSE /\ thrown' = Some(GameQAError("BROWSER_CRASH",
                           <<"Failed to start console logger: ", "Script execution failed">>))
            /\ pc' = "caught"
            /\ isListening' = isListening
  /\ UNCHANGED <<harnessVars, cliVars, maxRetries, overrun, llmCalls, argVars, retryVars, agentVars, screenshots, interactions, localVars,
                 saved, pending, result, outcome, handlerResult>>

\* executeInteractions, first part: click the start/play button if one was
\* detected and take screenshot 1 after a successful click
ClickStartButton ==
  /\ pc = "click"
  /\ \E clickOk \in BOOLEAN, shotOk \in BOOLEAN :
       IF hasStartButton(uiDetection)
       THEN IF scriptRuns(session, clickOk)
            THEN /\ interactions' = Append(interactions, click(TRUE))
                 /\ screenshots' = takeScreenshot(screenshots, 1,
                                     "After UI detection and start button click",
                                     RunnerSessionId, scriptRuns(session, shotOk))
            ELSE /\ interactions' = Append(interactions, click(FALSE))
                 /\ screenshots' = screenshots
       ELSE UNCHANGED <<interactions, screenshots>>
  /\ pc' = nextStep("click")
  /\ UNCHANGED <<harnessVars, cliVars, maxRetries, overrun, llmCalls, argVars, retryVars, agentVars, isListening, localVars, endVars>>

\* executeInteractions, second part: interactionHandler.executeSequence, with
\* its pauses of 2000 ms; the time since startTime may by then exceed timeout,
\* which nothing in run() compares with the clock
ExecuteSequence ==
  /\ pc = "sequence"
  /\ \E ok \in KeyOutcomes :
       interactions' = interactions \o
         <<pressKey("ArrowUp", scriptRuns(session, ok[1])),
           pressKey("ArrowRight", scriptRuns(session, ok[2])),
           pressKey("Space", scriptRuns(session, ok[3]))>>
  /\ \E late \in BOOLEAN : overrun' = late
  /\ pc' = nextStep("sequence")
  /\ UNCHANGED <<harnessVars, cliVars, maxRetries, llmCalls, argVars, retryVars, agentVars, screenshots, isListening, localVars,
                 endVars>>

\* executeInteractions, third part: the mid-gameplay screenshot
MidGameplayScreenshot ==
  /\ pc = "midshot"
  /\ \E ok \in BOOLEAN :
       screenshots' = takeScreenshot(screenshots, 2, "Mid-gameplay interaction",
                                     RunnerSessionId, scriptRuns(session, ok))
  /\ pc' = nextStep("midshot")
  /\ UNCHANGED <<harnessVars, cliVars, maxRetries, overrun, llmCalls, argVars, retryVars, agentVars, interactions, isListening,
                 localVars, endVars>>

\* executeInteractions, last part: the final screenshot
FinalScreenshot ==
  /\ pc = "finalshot"
  /\ \E ok \in BOOLEAN :
       screenshots' = takeScreenshot(screenshots, 3, "Final game state",
                                     RunnerSessionId, scriptRuns(session, ok))
  /\ pc' = nextStep("finalshot")
  /\ UNCHANGED <<harnessVars, cliVars, maxRetries, overrun, llmCalls, argVars, retryVars, agentVars, interactions, isListening,
                 localVars, endVars>>

\* what the page may give to collectLogs() and getUrl(): whether the two
\* scripts run, the numbers of console and error entries, location.href
PageReport(logsOk, nLogs, nErrors, urlOk, href) ==
  [logsOk |-> logsOk, nLogs |-> nLogs, nErrors |-> nErrors, urlOk |-> urlOk,
   href |-> href]

PageReports(u) ==
  {PageReport(TRUE, 0, 0, TRUE, u),
   PageReport(TRUE, MaxConsoleLogs, 0, TRUE, u),
   PageReport(TRUE, 0, 1, TRUE, u),
   PageReport(TRUE, MaxConsoleLogs, MaxErrorLogs, TRUE, u),
   PageReport(FALSE, MaxConsoleLogs, MaxErrorLogs, TRUE, u),
   PageReport(TRUE, MaxConsoleLogs, 0, TRUE, RedirectedUrl),
   PageReport(TRUE, 0, 0, TRUE, <<>>),
   PageReport(TRUE, 0, 0, FALSE, u)}

\* how many of the four artifact writes succeed (4: all of them)
SaveOutcomes == {2, 4}

\* captureEvidence (run() step 6): collectLogs swallows a failed script and
\* gives empty lists; getUrl's failure is thrown
CaptureEvidence ==
  /\ pc = "capture"
  /\ \E page \in PageReports(url) :
       IF scriptRuns(session, page.urlOk)
       THEN /\ evidence' = Some(
                 [session_id |-> RunnerSessionId,
                  game_url |-> page.href,
                  screenshots |-> screenshots,
                  console_logs |-> IF scriptRuns(session, page.logsOk)
                                   THEN Entries(page.nLogs, "log") ELSE <<>>,
                  errors |-> IF scriptRuns(session, page.logsOk)
                             THEN Entries(page.nErrors, "error") ELSE <<>>,
                  ui_detection |-> uiDetection,
                  interactions |-> interactions])
            /\ pc' = nextStep("capture")
            /\ thrown' = thrown
       ELSE /\ thrown' = Some(GameQAError("BROWSER_CRASH",
                           <<"Script execution failed: ", "session lost">>))
            /\ pc' = "caught"
            /\ evidence' = evidence
  /\ UNCHANGED <<harnessVars, cliVars, maxRetries, overrun, llmCalls, argVars, retryVars, agentVars, captureVars, uiDetection, evaluation,
                 llmReply, evalSource, report, saved, pending, result, outcome,
                 handlerResult>>

\* evaluateEvidence (run() step 7)
EvaluateEvidence ==
  /\ pc = "evaluate"
  /\ \E reply \in LlmReplies :
       LET done == evaluate(evidence[1], reply)
       IN /\ llmReply' = Some(reply)
          /\ llmCalls' = llmCalls + evaluateCalls(reply)
          /\ IF done.kind = "return"
             THEN /\ evaluation' = Some(done.value)
                  /\ evalSource' = evaluatorUsed(reply)
                  /\ pc' = nextStep("evaluate")
                  /\ thrown' = thrown
             ELSE /\ thrown' = Some(done.value)
                  /\ pc' = "caught"
                  /\ UNCHANGED <<evaluation, evalSource>>
  /\ UNCHANGED <<harnessVars, cliVars, maxRetries, overrun, argVars, retryVars, agentVars, captureVars, uiDetection, evidence,
                 report, saved, pending, result, outcome, handlerResult>>

\* buildReport (run() step 8)
BuildReport ==
  /\ pc = "build"
  /\ LET done == build(evidence[1], evaluation[1])
     IN IF done.kind = "return"
        THEN /\ report' = Some(done.value)
             /\ pc' = nextStep("build")
             /\ thrown' = thrown
        ELSE /\ thrown' = Some(done.value)
             /\ pc' = "caught"
             /\ report' = report
  /\ UNCHANGED <<harnessVars, cliVars, maxRetries, overrun, llmCalls, argVars, retryVars, agentVars, captureVars, uiDetection, evidence,
                 evaluation, llmReply, evalSource, saved, pending, result, outcome,
                 handlerResult>>

\* saveArtifacts (run() step 9) and, when all four writes succeed, the
\* return statement of the try block; a failed write throws
SaveArtifacts ==
  /\ pc = "save"
  /\ \E written \in SaveOutcomes :
       /\ saved' = SubSeq(ArtifactKinds, 1, written)
       /\ IF written = Len(ArtifactKinds)
          THEN /\ pending' = Return(report[1])
               /\ pc' = IF cleanupRuns("try") THEN "cleanup" ELSE "return"
               /\ thrown' = thrown
          ELSE /\ thrown' = Some(PlainError(<<"EACCES: permission denied">>))
               /\ pc' = "caught"
               /\ pending' = pending
  /\ UNCHANGED <<harnessVars, cliVars, maxRetries, overrun, llmCalls, argVars, retryVars, agentVars, captureVars, localVars, result,
                 outcome, handlerResult>>

\* the catch block of run()
Caught ==
  /\ pc = "caught"
  /\ pending' = runCatch(thrown[1], url, RunnerSessionId)
  /\ pc' = IF cleanupRuns("catch") THEN "cleanup" ELSE "return"
  /\ UNCHANGED <<harnessVars, cliVars, maxRetries, overrun, llmCalls, argVars, retryVars, agentVars, captureVars, localVars, saved, thrown,
                 result, outcome, handlerResult>>

\* the finally block of run(): cleanup(); an error thrown by the finally
\* block replaces the pending completion
Cleanup ==
  /\ pc = "cleanup"
  /\ \E deleteOk \in BOOLEAN :
       LET c == cleanup(session, deleteOk)
       IN /\ session' = c.session
          /\ deletes' = deletes \o c.issued
          /\ closeFailed' = c.failed
          /\ pending' = IF c.threw = None THEN pending ELSE Throw(c.threw[1])
  /\ closeCalls' = closeCalls + 1
  /\ pc' = "return"
  /\ UNCHANGED <<harnessVars, cliVars, maxRetries, overrun, llmCalls, argVars, retryVars, created, navigations, captureVars, localVars,
                 saved, thrown, result, outcome, handlerResult>>

\* the promise of run() settles with the pending completion
Settle ==
  /\ pc = "return"
  /\ IF pending.kind = "return"
     THEN /\ result' = Some(pending.value)
          /\ outcome' = "resolved"
     ELSE /\ result' = result
          /\ outcome' = "rejected"
  /\ pc' = "done"
  /\ UNCHANGED <<harnessVars, cliVars, maxRetries, overrun, llmCalls, argVars, retryVars, agentVars, captureVars, localVars, saved, thrown,
                 pending, handlerResult>>

\* handler(event), after run(): it returns run()'s result, or the error
\* result of its own catch block when run() rejected
HandlerReturn ==
  /\ pc = "done"
  /\ StartsWith(url, HttpPrefix)
  /\ handlerResult' =
       IF outcome = "resolved" THEN result
       ELSE Some(handlerErrorResult(pending.value, url))
  /\ pc' = "handlerDone"
  /\ UNCHANGED <<harnessVars, cliVars, maxRetries, overrun, llmCalls, argVars, retryVars, agentVars, captureVars, localVars, saved, thrown,
                 pending, result, outcome>>

\* main(), after run(): it prints the result and exits with the code of its
\* status; when run() rejected, the catch block exits with 2
CliReturn ==
  /\ pc = "done"
  /\ StartsWith(url, HttpPrefix)
  /\ maxRetries \in {0, maxRetriesOf(0)}
  /\ IF outcome = "resolved"
     THEN /\ stdout' = Append(stdout, stringify(result[1]))
          /\ exitCode' = Some(exitCodeOf(result[1].status))
     ELSE /\ stdout' = stdout
          /\ exitCode' = Some(2)
  /\ pc' = "cliDone"
  /\ UNCHANGED <<harnessVars, maxRetries, overrun, llmCalls, argVars, retryVars, agentVars,
                 captureVars, localVars, endVars>>

Next ==
  \/ Run
  \/ HandlerInvoke
  \/ CliInvoke
  \/ LoadGameAttempt
  \/ CaptureInitialScreenshot
  \/ DetectUI
  \/ StartListening
  \/ ClickStartButton
  \/ ExecuteSequence
  \/ MidGameplayScreenshot
  \/ FinalScreenshot
  \/ CaptureEvidence
  \/ EvaluateEvidence
  \/ BuildReport
  \/ SaveArtifacts
  \/ Caught
  \/ Cleanup
  \/ Settle
  \/ HandlerReturn
  \/ CliReturn

Spec == Init /\ [][Next]_vars

\* ------------------------------------------- two runs on the same runner
\* how many further run() calls on the same runner are followed
MaxEarlierRuns == 1

\* a run in which every script ran: no failed screenshot or interaction and
\* no error; the runs after which a second run() is followed
EveryScriptRan ==
  /\ thrown = None
  /\ outcome = "resolved"
  /\ \A i \in DOMAIN screenshots : Len(screenshots[i].description) = 1
  /\ \A i \in DOMAIN interactions : interactions[i].success

\* run(url, options) called again on the runner whose run() has ended: the
\* locals of run() are new, the fields of the runner and of its collaborators
\* (BrowserAgent.session, EvidenceCapture.screenshots,
\* InteractionHandler.interactions, ConsoleLogger.isListening) are as the
\* earlier run left them
RunAgain ==
  /\ pc = "done"
  /\ earlierRuns < MaxEarlierRuns
  /\ EveryScriptRan
  /\ earlierRuns' = earlierRuns + 1
  /\ carried' = [shots |-> Len(screenshots), interactions |-> Len(interactions),
                 created |-> created]
  /\ \E u \in Urls, option \in TimeoutOptions :
       /\ url' = u
       /\ timeout' = timeoutOf(option)
  /\ \E retries \in MaxRetriesOptions : maxRetries' = maxRetriesOf(retries)
  /\ pc' = "load"
  /\ attempt' = 0 /\ lastError' = None /\ delays' = <<>> /\ loadCalls' = 0
  /\ navigations' = <<>> /\ closeCalls' = 0 /\ closeFailed' = FALSE
  /\ uiDetection' = None /\ evidence' = None /\ evaluation' = None
  /\ llmReply' = None /\ llmCalls' = 0 /\ evalSource' = "none" /\ report' = None
  /\ saved' = <<>> /\ thrown' = None /\ pending' = None /\ result' = None
  /\ outcome' = "pending" /\ overrun' = FALSE
  /\ UNCHANGED <<session, created, deletes, captureVars, handlerResult, cliVars,
                 retryCallVars, clientVars, scoreVars, secretVars, configVars>>

SessionsNext ==
  \/ Next
  \/ RunAgain

SessionsSpec == Init /\ [][SessionsNext]_vars

\* ------------------------------------ concurrent first use of the LLM client
\* new AIEvaluator(): the environment decides useAWSSecrets
NewEvaluator ==
  /\ pc = "idle"
  /\ useAWSSecrets = None
  /\ \E aws \in BOOLEAN : useAWSSecrets' = Some(aws)
  /\ UNCHANGED <<runnerVars, retryCallVars, sessionVars, scoreVars, secretVars, configVars, openai, aiConfig, clientsBuilt,
                 evalPc, clientOf>>

\* initializeClient from "Validate API key" up to its next await or its end:
\* this.openai = new OpenAI(...), then await getConfig() if config is not set
constructClient(n, configLoaded) ==
  [openai |-> Some(n + 1), built |-> n + 1,
   at |-> IF configLoaded THEN "awaitInit" ELSE "awaitConfigAfter"]

\* evaluate() of call e starts: getClient() up to its first await. With a
\* client present it returns it; otherwise initializeClient runs up to the
\* await of the secret, or of getConfig(), or (config present) to its end
GetClient(e) ==
  /\ useAWSSecrets # None
  /\ evalPc[e] = "idle"
  /\ IF openai # None
     THEN /\ clientOf' = [clientOf EXCEPT ![e] = openai]
          /\ evalPc' = [evalPc EXCEPT ![e] = "gotClient"]
          /\ UNCHANGED <<openai, clientsBuilt>>
     ELSE IF useAWSSecrets[1]
     THEN /\ evalPc' = [evalPc EXCEPT ![e] = "awaitKey"]
          /\ UNCHANGED <<openai, clientsBuilt, clientOf>>
     ELSE IF ~aiConfig
     THEN /\ evalPc' = [evalPc EXCEPT ![e] = "awaitConfig"]
          /\ UNCHANGED <<openai, clientsBuilt, clientOf>>
     ELSE LET c == constructClient(clientsBuilt, aiConfig)
          IN /\ openai' = c.openai
             /\ clientsBuilt' = c.built
             /\ evalPc' = [evalPc EXCEPT ![e] = c.at]
             /\ clientOf' = clientOf
  /\ UNCHANGED <<runnerVars, retryCallVars, sessionVars, scoreVars, secretVars, configVars, useAWSSecrets, aiConfig>>

\* initializeClient resumes with the secret (or, the fetch having failed,
\* with OPENAI_API_KEY; with neither it throws VALIDATION_ERROR)
KeyFetched(e) ==
  /\ evalPc[e] = "awaitKey"
  /\ \E key \in BOOLEAN :
       IF key
       THEN LET c == constructClient(clientsBuilt, aiConfig)
            IN /\ openai' = c.openai
               /\ clientsBuilt' = c.built
               /\ evalPc' = [evalPc EXCEPT ![e] = c.at]
       ELSE /\ evalPc' = [evalPc EXCEPT ![e] = "failed"]
            /\ UNCHANGED <<openai, clientsBuilt>>
  /\ UNCHANGED <<runnerVars, retryCallVars, sessionVars, scoreVars, secretVars, configVars, useAWSSecrets, aiConfig,
                 clientOf>>

\* initializeClient resumes with the config it awaited before the key check;
\* a validated config has a non-empty openai.api_key
ConfigLoaded(e) ==
  /\ evalPc[e] = "awaitConfig"
  /\ aiConfig' = TRUE
  /\ LET c == constructClient(clientsBuilt, TRUE)
     IN /\ openai' = c.openai
        /\ clientsBuilt' = c.built
        /\ evalPc' = [evalPc EXCEPT ![e] = c.at]
  /\ UNCHANGED <<runnerVars, retryCallVars, sessionVars, scoreVars, secretVars, configVars, useAWSSecrets, clientOf>>

\* initializeClient resumes with the config it awaited after new OpenAI
ConfigLoadedAfter(e) ==
  /\ evalPc[e] = "awaitConfigAfter"
  /\ aiConfig' = TRUE
  /\ evalPc' = [evalPc EXCEPT ![e] = "awaitInit"]
  /\ UNCHANGED <<runnerVars, retryCallVars, sessionVars, scoreVars, secretVars, configVars, useAWSSecrets, openai,
                 clientsBuilt, clientOf>>

\* getClient resumes after await initializeClient(): return this.openai
ClientReturned(e) ==
  /\ evalPc[e] = "awaitInit"
  /\ clientOf' = [clientOf EXCEPT ![e] = openai]
  /\ evalPc' = [evalPc EXCEPT ![e] = "gotClient"]
  /\ UNCHANGED <<runnerVars, retryCallVars, sessionVars, scoreVars, secretVars, configVars, useAWSSecrets, openai,
                 aiConfig, clientsBuilt>>

ClientNext ==
  \/ NewEvaluator
  \/ \E e \in Evals : GetClient(e)
  \/ \E e \in Evals : KeyFetched(e)
  \/ \E e \in Evals : ConfigLoaded(e)
  \/ \E e \in Evals : ConfigLoadedAfter(e)
  \/ \E e \in Evals : ClientReturned(e)

ClientSpec == Init /\ [][ClientNext]_vars

\* --------------------------------------------- evaluation engine on its own
\* n screenshots as EvidenceCapture collects them
Shots(n) ==
  [i \in 1..n |->
     [index |-> i - 1,
      file_path |-> <<RunnerSessionId, "/screenshots/screenshot-", ToString(i - 1), ".png">>,
      description |-> <<"shot">>]]

\* the interaction lists handed to the engine
ScoreInteractions ==
  {<<>>, <<click(TRUE)>>, <<click(TRUE), pressKey("Space", TRUE)>>,
   <<click(TRUE), pressKey("Space", FALSE)>>, <<pressKey("Space", FALSE)>>}

\* the Evidence values handed to the engine
ScoreEvidences ==
  {[session_id |-> RunnerSessionId,
    game_url |-> GameUrl,
    screenshots |-> Shots(nShots),
    console_logs |-> Entries(nLogs, "log"),
    errors |-> Entries(nErrors, "error"),
    ui_detection |-> ui,
    interactions |-> inter] :
     nShots \in {0, 1, 3, 5, 6}, nLogs \in {0, 1}, nErrors \in {0, 1, 3},
     ui \in {None} \cup {Some(u) : u \in UiResults}, inter \in ScoreInteractions}

\* the JSON objects the model answers with in this harness
ScoreJsons ==
  LlmJsons \cup {Json(FALSE, c, n, 90, 10, 90) : c \in BOOLEAN, n \in BOOLEAN}
    \cup {Json(TRUE, TRUE, FALSE, 90, 100, 90), Json(TRUE, TRUE, TRUE, 90, 100, 40)}

\* the evaluator's fields: with or without an initialised client
ScoreSelves == {[openai |-> None], [openai |-> Some(1)]}

\* a caller hands an Evidence value to an AIEvaluator
ScorePick ==
  /\ scPc = "idle"
  /\ \E ev \in ScoreEvidences, self \in ScoreSelves :
       /\ scEvidence' = Some(ev)
       /\ scSelf' = Some(self)
  /\ scPc' = "picked"
  /\ UNCHANGED <<runnerVars, retryCallVars, sessionVars, clientVars, secretVars, configVars, scEval, scSource,
                 scSecond, scReport>>

\* evaluate(): the Language Model Service is unreachable, the catch block
\* returns heuristicEvaluation(evidence)
ScoreHeuristic ==
  /\ scPc = "picked"
  /\ scEval' = Some(heuristicEvaluationOf(scSelf[1], scEvidence[1]))
  /\ scSource' = "heuristic"
  /\ scPc' = "evaluated"
  /\ UNCHANGED <<runnerVars, retryCallVars, sessionVars, clientVars, secretVars, configVars, scSelf, scEvidence,
                 scSecond, scReport>>

\* evaluate(): the model answers with a JSON object, parseResponse reads it
ScoreLlm ==
  /\ scPc = "picked"
  /\ \E json \in ScoreJsons : scEval' = Some(parseResponse(json))
  /\ scSource' = "llm"
  /\ scPc' = "evaluated"
  /\ UNCHANGED <<runnerVars, retryCallVars, sessionVars, clientVars, secretVars, configVars, scSelf, scEvidence,
                 scSecond, scReport>>

\* the heuristic evaluator is asked again about the same Evidence, by an
\* evaluator whose fields may differ
ScoreHeuristicAgain ==
  /\ scPc = "evaluated"
  /\ scSource = "heuristic"
  /\ scSecond = None
  /\ \E self \in ScoreSelves :
       /\ scSelf' = Some(self)
       /\ scSecond' = Some(heuristicEvaluationOf(self, scEvidence[1]))
  /\ UNCHANGED <<runnerVars, retryCallVars, sessionVars, clientVars, secretVars, configVars, scPc, scEvidence,
                 scEval, scSource, scReport>>

\* ReportBuilder.build(evidence, evaluation)
ScoreBuild ==
  /\ scPc = "evaluated"
  /\ scReport' = Some(build(scEvidence[1], scEval[1]))
  /\ scPc' = "built"
  /\ UNCHANGED <<runnerVars, retryCallVars, sessionVars, clientVars, secretVars, configVars, scSelf, scEvidence,
                 scEval, scSource, scSecond>>

ScoreNext ==
  \/ ScorePick
  \/ ScoreHeuristic
  \/ ScoreLlm
  \/ ScoreHeuristicAgain
  \/ ScoreBuild

ScoreSpec == Init /\ [][ScoreNext]_vars

\* ------------------------------------------------- SecretsManager on its own
\* SecretsManager.defaultTTL, in milliseconds
defaultTTL == 5 * 60 * 1000

\* the ttl argument of getSecret: absent (0) or 100 seconds
TtlOptions == {0, 100000}

\* by how much the clock may advance between two steps: 150 seconds
TickSteps == {150000}

\* how often the clock advances
MaxTicks == 3

\* getSecret: cached && Date.now() - cached.timestamp < cached.ttl
cachedIsFresh(cached, t) ==
  cached # None /\ t - cached[1].timestamp < cached[1].ttl

\* the value AWS holds for a secret (and a key of it)
secretValue(secretName, key) == [name |-> secretName, key |-> key]

\* Date.now() advances
Tick ==
  /\ secTicks < MaxTicks
  /\ \E d \in TickSteps : secNow' = secNow + d
  /\ secTicks' = secTicks + 1
  /\ UNCHANGED <<runnerVars, retryCallVars, sessionVars, clientVars, scoreVars, configVars, secCache,
                 secPc, secCall>>

\* getSecret(secretName, key, useCache, ttl) up to its await: a fresh cache
\* entry is returned, otherwise the secret is requested from AWS
GetSecret ==
  /\ secPc # "fetching"
  /\ \E secretName \in SecretNames, key \in SecretKeys, useCache \in BOOLEAN,
        ttl \in TtlOptions :
       LET cached == secCache[cacheKey(secretName, key)]
           hit == useCache /\ cachedIsFresh(cached, secNow)
       IN /\ secCall' = Some([name |-> secretName, key |-> key, useCache |-> useCache,
                              ttl |-> ttl, found |-> cached, at |-> secNow,
                              value |-> IF hit THEN Some(cached[1].secret) ELSE None])
          /\ secPc' = IF hit THEN "returned" ELSE "fetching"
  /\ UNCHANGED <<runnerVars, retryCallVars, sessionVars, clientVars, scoreVars, configVars, secCache,
                 secNow, secTicks>>

\* getSecret resumes with the response of AWS: the value is cached (with
\* ttl || defaultTTL) and returned; a failed request or a response without
\* the value is thrown on
SecretFetched ==
  /\ secPc = "fetching"
  /\ \E ok \in BOOLEAN :
       LET call == secCall[1]
           value == secretValue(call.name, call.key)
       IN IF ok
          THEN /\ secCache' =
                    IF call.useCache
                    THEN [secCache EXCEPT ![cacheKey(call.name, call.key)] =
                            Some([secret |-> value, timestamp |-> secNow,
                                  ttl |-> IF call.ttl # 0 THEN call.ttl ELSE defaultTTL])]
                    ELSE secCache
               /\ secCall' = Some([call EXCEPT !.value = Some(value)])
               /\ secPc' = "returned"
          ELSE /\ secPc' = "failed"
               /\ UNCHANGED <<secCache, secCall>>
  /\ UNCHANGED <<runnerVars, retryCallVars, sessionVars, clientVars, scoreVars, configVars, secNow,
                 secTicks>>

\* clearCache(secretName, key) and invalidateCache(secretName, key)
InvalidateCache ==
  /\ \E secretName \in SecretNames, key \in SecretKeys :
       secCache' = [secCache EXCEPT ![cacheKey(secretName, key)] = None]
  /\ UNCHANGED <<runnerVars, retryCallVars, sessionVars, clientVars, scoreVars, configVars, secNow,
                 secTicks, secPc, secCall>>

\* clearAllCache()
ClearAllCache ==
  /\ secCache' = [c \in CacheKeys |-> None]
  /\ UNCHANGED <<runnerVars, retryCallVars, sessionVars, clientVars, scoreVars, configVars, secNow,
                 secTicks, secPc, secCall>>

SecretsNext ==
  \/ Tick
  \/ GetSecret
  \/ SecretFetched
  \/ ClearAllCache
  \/ InvalidateCache

SecretsSpec == Init /\ [][SecretsNext]_vars

\* ------------------------------------------- concurrent use of getConfig()
\* faulty variant of getConfig: a pending load is not looked at
getConfigLoadsIgnoringPromise(instance, promise) == instance = None

\* getConfig: if (!configInstance && !configPromise), the branch that
\* invokes loadConfig()
getConfigLoads(instance, promise) == instance = None /\ promise = None

\* getConfig: else if (configPromise), the branch that awaits the promise
\* of an earlier loadConfig()
getConfigJoins(instance, promise) ==
  ~getConfigLoads(instance, promise) /\ promise # None

\* resetConfig: the module state it leaves (configPromise is not assigned)
resetConfig(instance, promise) == [instance |-> None, promise |-> promise]

\* getConfig(), up to its first await or, when neither branch is taken, to
\* its return
GetConfig ==
  \E c \in ConfigCallers :
    /\ cfgPc[c] \in {"idle", "returned", "threw"}
    /\ cfgFresh' = FALSE
    /\ IF getConfigLoads(configInstance, configPromise)
       THEN /\ cfgLoads < MaxLoads
            /\ cfgLoads' = cfgLoads + 1
            /\ cfgPromises' = [cfgPromises EXCEPT ![cfgLoads + 1] = "pending"]
            /\ configPromise' = Some(cfgLoads + 1)
            /\ cfgPc' = [cfgPc EXCEPT ![c] = "awaiting"]
            /\ cfgAwaited' = [cfgAwaited EXCEPT ![c] = cfgLoads + 1]
            /\ cfgGot' = [cfgGot EXCEPT ![c] = None]
            /\ cfgQueue' = Append(cfgQueue, c)
            /\ UNCHANGED configInstance
       ELSE IF getConfigJoins(configInstance, configPromise)
       THEN /\ cfgPc' = [cfgPc EXCEPT ![c] = "awaiting"]
            /\ cfgAwaited' = [cfgAwaited EXCEPT ![c] = configPromise[1]]
            /\ cfgGot' = [cfgGot EXCEPT ![c] = None]
            /\ cfgQueue' = Append(cfgQueue, c)
            /\ UNCHANGED <<configInstance, configPromise, cfgPromises, cfgLoads>>
       ELSE /\ cfgPc' = [cfgPc EXCEPT ![c] = "returned"]
            /\ cfgAwaited' = [cfgAwaited EXCEPT ![c] = 0]
            /\ cfgGot' = [cfgGot EXCEPT ![c] = configInstance]
            /\ UNCHANGED <<configInstance, configPromise, cfgPromises, cfgLoads,
                           cfgQueue>>
    /\ UNCHANGED <<runnerVars, retryCallVars, sessionVars, clientVars, scoreVars,
                   secretVars, cfgResets>>

\* loadConfig() ends: it resolves with a validated configuration, or rejects
\* with "Configuration validation failed"
LoadConfigSettles ==
  \E p \in 1..MaxLoads, ok \in BOOLEAN :
    /\ cfgPromises[p] = "pending"
    /\ cfgPromises' = [cfgPromises EXCEPT ![p] = IF ok THEN "fulfilled" ELSE "rejected"]
    /\ UNCHANGED <<runnerVars, retryCallVars, sessionVars, clientVars, scoreVars,
                   secretVars, configInstance, configPromise, cfgLoads, cfgPc,
                   cfgAwaited, cfgGot, cfgQueue, cfgResets, cfgFresh>>

\* the position in cfgQueue of the suspended call that continues next: the
\* earliest one whose promise has settled (0: none)
nextContinuation(queue, promises) ==
  LET ready == {i \in DOMAIN queue : promises[cfgAwaited[queue[i]]] # "pending"}
  IN IF ready = {} THEN 0 ELSE CHOOSE i \in ready : \A j \in ready : i <= j

\* the sequence without its i-th element
withoutAt(queue, i) ==
  SubSeq(queue, 1, i - 1) \o SubSeq(queue, i + 1, Len(queue))

\* getConfig() after its await: configInstance = await configPromise;
\* configPromise = null; return configInstance, or the rejection is thrown on
GetConfigContinues ==
  LET i == nextContinuation(cfgQueue, cfgPromises)
  IN /\ i # 0
     /\ LET c == cfgQueue[i]
            p == cfgAwaited[c]
        IN /\ cfgQueue' = withoutAt(cfgQueue, i)
           /\ IF cfgPromises[p] = "fulfilled"
              THEN /\ configInstance' = Some(p)
                   /\ configPromise' = None
                   /\ cfgPc' = [cfgPc EXCEPT ![c] = "returned"]
                   /\ cfgGot' = [cfgGot EXCEPT ![c] = Some(p)]
              ELSE /\ cfgPc' = [cfgPc EXCEPT ![c] = "threw"]
                   /\ UNCHANGED <<configInstance, configPromise, cfgGot>>
     /\ UNCHANGED <<runnerVars, retryCallVars, sessionVars, clientVars, scoreVars,
                    secretVars, cfgPromises, cfgLoads, cfgAwaited, cfgResets,
                    cfgFresh>>

\* resetConfig()
ResetConfig ==
  /\ cfgResets < MaxResets
  /\ cfgLoads > 0
  /\ cfgResets' = cfgResets + 1
  /\ cfgFresh' = TRUE
  /\ configInstance' = resetConfig(configInstance, configPromise).instance
  /\ configPromise' = resetConfig(configInstance, configPromise).promise
  /\ UNCHANGED <<runnerVars, retryCallVars, sessionVars, clientVars, scoreVars,
                 secretVars, cfgPromises, cfgLoads, cfgPc, cfgAwaited, cfgGot,
                 cfgQueue>>

ConfigNext ==
  \/ GetConfig
  \/ LoadConfigSettles
  \/ GetConfigContinues
  \/ ResetConfig

ConfigSpec == Init /\ [][ConfigNext]_vars

\* ------------------------------------------------- retryWithType on its own
\* the longest behaviour script of an operation handed to retryWithType
MaxOpCalls == 5

\* the operations a caller may hand to retryWithType: invocation k resolves
\* with the value k when op[k] is TRUE and throws OpError(k) otherwise
RetryOps == [1..MaxOpCalls -> BOOLEAN]

OpError(k) == PlainError(<<"invocation ", ToString(k), " failed">>)

\* retryWithType(fn, errorType), called by a library user
RetryWithType ==
  /\ pc = "idle"
  /\ retryKind = "none"
  /\ \E kind \in ErrorType, op \in RetryOps :
       /\ retryKind' = kind
       /\ retryOp' = op
  /\ UNCHANGED <<runnerVars, sessionVars, clientVars, scoreVars, secretVars, configVars, retryCalls, retryAttempt,
                 retryLastError, retryDelays, retryDone>>

\* one pass of retry()'s loop: invoke fn; return its value, or keep its
\* error and either wait and go round again or throw lastError
RetryPass ==
  /\ retryKind # "none"
  /\ retryDone = None
  /\ retryCalls < MaxOpCalls
  /\ LET k == retryCalls + 1
         config == RETRY_CONFIGS[retryKind]
     IN /\ retryCalls' = k
        /\ IF retryOp[k]
           THEN /\ retryDone' = Return(k)
                /\ UNCHANGED <<retryAttempt, retryLastError, retryDelays>>
           ELSE /\ retryLastError' = Some(OpError(k))
                /\ IF retryAgain(config, retryAttempt)
                   THEN /\ retryDelays' =
                             Append(retryDelays, calculateDelay(config, retryAttempt))
                        /\ retryAttempt' = retryAttempt + 1
                        /\ retryDone' = retryDone
                   ELSE /\ retryDone' = Throw(OpError(k))
                        /\ UNCHANGED <<retryAttempt, retryDelays>>
  /\ UNCHANGED <<runnerVars, sessionVars, clientVars, scoreVars, secretVars, configVars, retryKind, retryOp>>

RetryNext ==
  \/ RetryWithType
  \/ RetryPass

RetrySpec == Init /\ [][RetryNext]_vars

\* every variable keeps its shape
TypeOK ==
  /\ pc \in {"idle", "load", "observe", "detect", "listen", "click", "sequence",
             "midshot", "finalshot", "capture", "evaluate", "build", "save",
             "caught", "cleanup", "return", "done", "handlerDone", "cliDone"}
  /\ outcome \in {"pending", "resolved", "rejected"}
  /\ attempt \in 0..3
  /\ Len(session) <= 1
  /\ Len(result) <= 1

\* ------------------------------------------------------------------ claims
\* the three criterion results of a TestResult
Criteria(r) ==
  <<r.evaluations.load_successful.result, r.evaluations.controls_responsive.result,
    r.evaluations.no_crashes.result>>

\* the TestResults a caller has received in this state
Returned == {r \in {result, handlerResult} : r # None}

\* C1: run(url) with a url that passes URL validation never rejects: whatever
\* the collaborators do, every step of the session can be continued and the
\* promise resolves to a TestResult.
C1_RunAlwaysResolves ==
  StartsWith(url, HttpPrefix) =>
    /\ outcome # "rejected"
    /\ pc \notin {"idle", "done", "handlerDone", "cliDone"} => ENABLED Next
    /\ pc = "done" =>
         /\ outcome = "resolved"
         /\ result # None
         /\ result[1].status \in {"pass", "fail", "partial", "error"}

\* C1 witness: a session with a valid url in which a collaborator failed and
\* the close failed too has resolved
C1_Witness ==
  /\ pc = "done"
  /\ StartsWith(url, HttpPrefix)
  /\ thrown # None
  /\ closeFailed
  /\ outcome = "resolved"

\* C2: when a phase raised to run()'s catch block, the TestResult has status
\* error, score 0, confidence 0, all criteria false, and an issue that
\* contains the message of the caught error.
C2_ErrorResultShape ==
  (pc = "done" /\ thrown # None) =>
    /\ result # None
    /\ result[1].status = "error"
    /\ result[1].playability_score = 0
    /\ result[1].confidence = 0
    /\ Criteria(result[1]) = <<FALSE, FALSE, FALSE>>
    /\ \E i \in DOMAIN result[1].issues :
         Includes(result[1].issues[i], thrown[1].message)

\* C2 witness: a run that was aborted by a failed artifact write
C2_Witness ==
  /\ pc = "done"
  /\ thrown # None
  /\ report # None
  /\ result[1].status = "error"

\* C3: close is invoked exactly once per run, after the completion of the
\* try/catch has been determined and before the promise settles.
C3_CloseExactlyOnce ==
  /\ closeCalls <= 1
  /\ closeCalls = 1 => pending # None
  /\ outcome # "pending" => closeCalls = 1
  /\ pc = "done" => closeCalls = 1

\* C3 witness: a run whose load failed has closed once and resolved
C3_Witness ==
  /\ pc = "done"
  /\ thrown # None
  /\ evidence = None
  /\ closeCalls = 1

C5_CloseFailureKeepsVerdict ==
  (pc = "done" /\ closeFailed) =>
    /\ outcome = "resolved"
    /\ result =
         IF thrown = None THEN report
         ELSE Some(handleError(thrown[1], url, RunnerSessionId))

\* C5 witness: a run whose close failed returned a pass report
C5_Witness ==
  /\ pc = "done"
  /\ closeFailed
  /\ result # None
  /\ result[1].status = "pass"

\* C6: a returned TestResult has status pass exactly when its confidence is
\* at least 0.6, its score at least 70 and all three criteria are true.
C6_PassIff ==
  \A r \in Returned :
    r[1].status = "pass" <=>
      /\ r[1].confidence >= 60 * ConfUnit
      /\ r[1].playability_score >= 70
      /\ Criteria(r[1]) = <<TRUE, TRUE, TRUE>>

\* C6 witness: a result with score 70 and all criteria true that passes
C6_Witness ==
  /\ result # None
  /\ result[1].status = "pass"
  /\ result[1].playability_score = 70

\* the status that the values of a TestResult determine
StatusOfValues(score, confidence, criteria) ==
  IF score = 0 /\ confidence = 0 /\ criteria = <<FALSE, FALSE, FALSE>> THEN "error"
  ELSE IF confidence < 60 * ConfUnit THEN "partial"
  ELSE IF score < 70 THEN "fail"
  ELSE IF criteria = <<TRUE, TRUE, TRUE>> THEN "pass"
  ELSE "partial"

\* C7: the status of every TestResult returned by run() or by the Lambda
\* handler is one function of (score, confidence, criteria); a non-error
\* result never has the values of the error result.
C7_StatusIsFunction ==
  \A r \in Returned :
    r[1].status = StatusOfValues(r[1].playability_score, r[1].confidence, Criteria(r[1]))

\* C7 witness: a non-error result with score 0 and all criteria false
C7_Witness ==
  /\ handlerResult # None
  /\ handlerResult[1].status # "error"
  /\ handlerResult[1].playability_score = 0
  /\ Criteria(handlerResult[1]) = <<FALSE, FALSE, FALSE>>

\* C8: every TestResult returned by run() has 0 <= confidence <= 1 and
\* 0 <= playability_score <= 100, whatever numbers the model answered.
C8_RangesHold ==
  result # None =>
    /\ 0 <= result[1].confidence /\ result[1].confidence <= ConfScale
    /\ 0 <= result[1].playability_score /\ result[1].playability_score <= 100

\* C8 witness: the model answered a score above 100 and a report was returned
C8_Witness ==
  /\ result # None
  /\ result[1].status # "error"
  /\ llmReply # None
  /\ llmReply[1].kind = "ok"
  /\ llmReply[1].json.playability_score = Some(150)

\* C9: in every TestResult returned by run(), the confidence of each of the
\* three criteria lies in [0,1].
C9_CriterionConfidenceInRange ==
  result # None =>
    \A c \in {result[1].evaluations.load_successful,
              result[1].evaluations.controls_responsive,
              result[1].evaluations.no_crashes} :
      0 <= c.confidence /\ c.confidence <= ConfScale

\* C10: a failed LLM call, an empty LLM response and an unparseable LLM
\* response are all absorbed by evaluate(): it returns the heuristic
\* evaluation and nothing of it reaches run()'s catch block.
C10_EvaluationFailuresAbsorbed ==
  (llmReply # None /\ llmReply[1].kind \in {"callFailed", "empty", "unparseable"}) =>
    /\ evalSource = "heuristic"
    /\ evaluation = Some(heuristicEvaluation(evidence[1]))
    /\ ~(thrown # None /\ thrown[1].type = "LLM_FAILURE")

\* C11: a failed LLM call is retried under the LLM_FAILURE budget, so the
\* heuristic evaluation is used only after 1 + maxRetries = 3 calls of the
\* Language Model Service have failed, and no evaluation makes more calls.
C11_LlmRetriedBeforeFallback ==
  /\ llmCalls <= 1 + RETRY_CONFIGS["LLM_FAILURE"].maxRetries
  /\ evalSource = "heuristic" =>
       llmCalls = 1 + RETRY_CONFIGS["LLM_FAILURE"].maxRetries

\* C12: the session deadline is checked at every phase transition: when the
\* elapsed time exceeds the timeout at the end of INTERACT, no later phase
\* (evidence capture, evaluation, report, persist) is executed and the run
\* ends with status error caused by a TIMEOUT error.
C12_DeadlineEndsRun ==
  overrun =>
    /\ evidence = None /\ evaluation = None /\ report = None /\ saved = <<>>
    /\ pc = "done" =>
         /\ result # None
         /\ result[1].status = "error"
         /\ thrown # None
         /\ thrown[1].type = "TIMEOUT"

\* every attempt of run()'s load failed and retry() threw
LoadFailed == pc # "load" /\ loadCalls > 0

InvocationBudget ==
  [BROWSER_CRASH |-> 3, API_FAILURE |-> 3, NETWORK_ERROR |-> 4, TIMEOUT |-> 2,
   LLM_FAILURE |-> 3, VALIDATION_ERROR |-> 1, SCREENSHOT_FAILURE |-> 1,
   FATAL |-> 1]

FailedShot(shot) == Len(shot.description) = 2

\* C15: a failed UI detection or screenshot capture never sends the run to
\* its error handler: the step after it follows, a failed detection is an
\* absent ui_detection in the Evidence, and a run in which nothing else
\* failed ends with a status other than error.
C15_GracefulDegradation ==
  /\ [][(pc \in {"observe", "detect", "click", "midshot", "finalshot"})
          => (pc' \notin {"caught", "cleanup", "return", "done"})]_vars
  /\ [](evidence # None =>
          /\ evidence[1].ui_detection = uiDetection
          /\ evidence[1].screenshots = screenshots)
  /\ []((pc = "done" /\ thrown = None) =>
          /\ result = report
          /\ result # None
          /\ result[1].status # "error")

\* C15 witness: UI detection and every screenshot capture failed and the
\* run ended with a report
C15_Witness ==
  /\ pc = "done"
  /\ thrown = None
  /\ uiDetection = None
  /\ Len(screenshots) = 3
  /\ \A i \in DOMAIN screenshots : FailedShot(screenshots[i])
  /\ result[1].status \in {"pass", "fail", "partial"}

\* the phases of a session, in order, and the phase a step of run() is part of
Phases ==
  <<"LOAD", "OBSERVE", "DETECT_UI", "INTERACT", "CAPTURE_EVIDENCE", "EVALUATE",
    "BUILD_REPORT", "PERSIST">>

PhaseRank(step) ==
  CASE step = "idle" -> 0
    [] step = "load" -> 1
    [] step = "observe" -> 2
    [] step = "detect" -> 3
    [] step \in {"listen", "click", "sequence", "midshot", "finalshot"} -> 4
    [] step = "capture" -> 5
    [] step = "evaluate" -> 6
    [] step = "build" -> 7
    [] step = "save" -> 8
    [] OTHER -> 9

\* C16: the phases start in the order LOAD, OBSERVE, DETECT_UI, INTERACT,
\* CAPTURE_EVIDENCE, EVALUATE, BUILD_REPORT, PERSIST, each after the one
\* before it has completed and none a second time; the run ends either in
\* DONE, after PERSIST and with the report, or in ERROR with the error result.
C16_PhaseOrder ==
  /\ [][\/ PhaseRank(pc') = PhaseRank(pc)
        \/ PhaseRank(pc') = PhaseRank(pc) + 1
        \/ PhaseRank(pc') = Len(Phases) + 1]_vars
  /\ []((PhaseRank(pc) = 2 => Len(screenshots) = 0)
        /\ (PhaseRank(pc) <= 3 => uiDetection = None /\ interactions = <<>>)
        /\ (PhaseRank(pc) <= 5 => evidence = None)
        /\ (PhaseRank(pc) <= 6 => evaluation = None)
        /\ (PhaseRank(pc) <= 7 => report = None)
        /\ (PhaseRank(pc) <= 8 => saved = <<>>))
  /\ [](pc = "done" =>
          \/ /\ thrown = None
             /\ saved = ArtifactKinds
             /\ result = report
             /\ result[1].status # "error"
          \/ /\ thrown # None
             /\ result # report
             /\ result[1].status = "error")

\* C16 witness: a run went through all eight phases and returned its report
C16_Witness ==
  /\ pc = "done"
  /\ thrown = None
  /\ Len(screenshots) = 4
  /\ uiDetection # None
  /\ Len(interactions) = 4
  /\ evidence # None /\ evaluation # None /\ report # None
  /\ saved = ArtifactKinds

\* C17: sessions are isolated, also two run() calls on the same runner: the
\* Evidence of a session holds exactly the screenshots and interaction
\* records captured during that session, and the session's remote browser
\* session is one created during it.
C17_SessionsIsolated ==
  /\ evidence # None =>
       /\ evidence[1].screenshots =
            SubSeq(screenshots, carried.shots + 1, Len(screenshots))
       /\ evidence[1].interactions =
            SubSeq(interactions, carried.interactions + 1, Len(interactions))
  /\ session # None => session[1].sessionId > carried.created

\* C18: the initialisation of the LLM client is single-flight: however many
\* evaluate() calls meet the uninitialised client, new OpenAI is executed
\* once and all of them get the same client.
C18_ClientSingleFlight ==
  /\ clientsBuilt <= 1
  /\ \A e1 \in Evals, e2 \in Evals :
       (clientOf[e1] # None /\ clientOf[e2] # None) => clientOf[e1] = clientOf[e2]

\* an error-shaped TestResult whose issues hold the message of the error
ErrorShaped(r, error) ==
  /\ r.status = "error"
  /\ r.playability_score = 0
  /\ r.confidence = 0
  /\ \E i \in DOMAIN r.issues : r.issues[i] = messageOf(error)

\* C19: the Lambda handler never raises for a url string or {url, options}:
\* when it has finished it has returned a TestResult, which is run()'s own
\* result when the session ran, and an error-shaped result (status error,
\* score 0, confidence 0, the failure message among the issues) when the url
\* is missing or not http(s) or the runner could not be constructed.
C19_HandlerAlwaysReturns ==
  pc = "handlerDone" =>
    /\ handlerResult # None
    /\ outcome # "rejected"
    /\ IF outcome = "resolved"
       THEN handlerResult = result
       ELSE IF ~StartsWith(url, HttpPrefix)
       THEN ErrorShaped(handlerResult[1], InvalidUrlError)
       ELSE ErrorShaped(handlerResult[1], ConfigurationError)

\* the handler has answered an event with a good url whose runner could not
\* be constructed
C19_Witness ==
  /\ pc = "handlerDone"
  /\ outcome = "pending"
  /\ StartsWith(url, HttpPrefix)
  /\ handlerResult # None
  /\ handlerResult[1].issues = <<messageOf(ConfigurationError)>>
C20_WitnessError ==
  /\ pc = "cliDone"
  /\ outcome = "resolved"
  /\ result[1].status = "error"
  /\ Len(stdout) = 1
  /\ exitCode = Some(1)

\* C21: the CLI exits with code 2 exactly when no session was started (no
\* arguments, a malformed url, a failure before run()): then nothing is
\* printed to stdout, and a session that was started never ends in code 2.
C21_ExitTwoIffPreSession ==
  pc = "cliDone" =>
    /\ exitCode # None
    /\ exitCode[1] = 2 <=> outcome = "pending"
    /\ outcome = "pending" => stdout = <<>>

\* the Evidence of Scenario A: at least 5 screenshots, no errors, at least
\* one interaction and every interaction successful
ScenarioA(ev) ==
  /\ Len(ev.screenshots) >= 5
  /\ Len(ev.errors) = 0
  /\ Len(ev.interactions) >= 1
  /\ SuccessCount(ev.interactions) = Len(ev.interactions)

\* C22: with the Language Model Service unreachable and an Evidence as in
\* Scenario A, the heuristic fallback gives score 100 and confidence 0.6, and
\* the report built from it has status pass, whatever the console logs and
\* the UI detection hold.
C22_ScenarioA ==
  (scSource = "heuristic" /\ ScenarioA(scEvidence[1])) =>
    /\ scEval[1].playability_score = 100
    /\ scEval[1].confidence = 60 * ConfUnit
    /\ scPc = "built" =>
         /\ scReport[1].kind = "return"
         /\ scReport[1].value.status = "pass"

\* Scenario A with neither console logs nor a UI detection has been built
C22_Witness ==
  /\ scPc = "built"
  /\ scSource = "heuristic"
  /\ ScenarioA(scEvidence[1])
  /\ scEvidence[1].console_logs = <<>>
  /\ scEvidence[1].ui_detection = None
  /\ scReport[1].value.status = "pass"

\* Scenario B: the model answered score 10, confidence 0.9, load_successful
\* false, and the Evidence has no screenshot and 3 errors
ScenarioB ==
  /\ scSource = "llm"
  /\ scEval[1].playability_score = 10
  /\ scEval[1].confidence = 90 * ConfUnit
  /\ ~scEval[1].load_successful.result
  /\ Len(scEvidence[1].screenshots) = 0
  /\ Len(scEvidence[1].errors) = 3

\* C23: in Scenario B the report has status fail, whatever the console logs,
\* the UI detection and the interactions hold.
C23_ScenarioB ==
  (scPc = "built" /\ ScenarioB) =>
    /\ scReport[1].kind = "return"
    /\ scReport[1].value.status = "fail"

\* Scenario B has been built for an Evidence without console logs, UI
\* detection and interactions
C23_Witness ==
  /\ scPc = "built"
  /\ ScenarioB
  /\ scEvidence[1].console_logs = <<>>
  /\ scEvidence[1].ui_detection = None
  /\ scEvidence[1].interactions = <<>>
  /\ scReport[1].value.status = "fail"

C25_SnapshotIndices ==
  /\ [](evidence # None =>
          \A i \in DOMAIN evidence[1].screenshots :
            /\ evidence[1].screenshots[i].index >= 0
            /\ \A j \in DOMAIN evidence[1].screenshots :
                 (i # j) => (evidence[1].screenshots[i].index
                               # evidence[1].screenshots[j].index))
  /\ [][(pc \in {"evaluate", "build", "save"}) => (evidence' = evidence)]_vars

\* C26: the TestResult that run(url, options) returns names the url it was
\* called with as game_url, on the success path and on the error path.
C26_GameUrlIsArgument ==
  result # None => result[1].game_url = url

\* C27: getSecret(name, key) with caching answers without a remote fetch only
\* from an entry that holds the value of the same (name, key), was stored
\* less than its TTL ago and is still in the cache; with no such entry
\* (expired, invalidated, cleared) the call fetches from AWS; and a failed
\* fetch leaves the cache as it was.
C27_CacheOnlyWhenFresh ==
  /\ []((secCall # None /\ secPc = "returned" /\ secCall[1].found # None
           /\ secCall[1].useCache /\ secCall[1].value = Some(secCall[1].found[1].secret)
           /\ secCall[1].at - secCall[1].found[1].timestamp < secCall[1].found[1].ttl)
          => /\ secCall[1].found[1].secret.name = secCall[1].name
             /\ secCall[1].found[1].secret.key = secCall[1].key)
  /\ [][(secPc # "fetching" /\ secCall' # secCall /\ secPc' = "returned")
          => (/\ secCall'[1].useCache
              /\ secCall'[1].found # None
              /\ secNow - secCall'[1].found[1].timestamp < secCall'[1].found[1].ttl)]_vars
  /\ [][(secPc = "fetching" /\ secPc' = "failed") => (secCache' = secCache)]_vars

\* C28: a VALIDATION_ERROR of loadGame surfaces at once in the load phase:
\* loadGame has been invoked exactly once, no retry delay has been waited and
\* the error is on its way to run()'s catch block.
C28_ValidationErrorNotRetried ==
  (lastError # None /\ lastError[1].type = "VALIDATION_ERROR") =>
    /\ loadCalls = 1
    /\ delays = <<>>
    /\ pc # "load"

\* C29: a retried loadGame opens a new remote browser session: no two
\* navigations of one load phase go to the same remote session.
C29_NewSessionOnRetry ==
  \A i \in DOMAIN navigations, j \in DOMAIN navigations :
    (i # j) => (navigations[i] # navigations[j])

\* C30: determineStatus applies its rules in this order to every evaluation
\* and combined confidence: confidence below 0.6 gives partial; otherwise a
\* score of at least 70 with all three criteria true gives pass; otherwise a
\* score of at least 70 gives partial; otherwise fail. It never gives error.
C30_StatusRulesInOrder ==
  (scPc = "built" /\ scReport[1].kind = "return") =>
    LET e == scEval[1]
        r == scReport[1].value
        allTrue == /\ e.load_successful.result
                   /\ e.controls_responsive.result
                   /\ e.no_crashes.result
    IN /\ r.status # "error"
       /\ r.confidence < 60 * ConfUnit => r.status = "partial"
       /\ (r.confidence >= 60 * ConfUnit /\ e.playability_score >= 70 /\ allTrue)
            => r.status = "pass"
       /\ (r.confidence >= 60 * ConfUnit /\ e.playability_score >= 70 /\ ~allTrue)
            => r.status = "partial"
       /\ (r.confidence >= 60 * ConfUnit /\ e.playability_score < 70)
            => r.status = "fail"

\* a report with a combined confidence of exactly 0.6, a score of 70 and
\* all criteria true has status pass
C30_Witness ==
  /\ scPc = "built"
  /\ scReport[1].kind = "return"
  /\ scReport[1].value.confidence = 60 * ConfUnit
  /\ scReport[1].value.playability_score = 70
  /\ scReport[1].value.status = "pass"

\* 1 for a criterion that holds, 0 for one that does not
Points(b) == IF b THEN 1 ELSE 0

\* C31: for every Evidence the heuristic evaluation has load_successful =
\* (a screenshot exists and there is no error), controls_responsive = (some
\* interaction succeeded), no_crashes = (no error), score = 30, 40 and 30
\* points for the three, confidence = min(0.6, score/100), and as many issues
\* as criteria that are false.
C31_HeuristicFormula ==
  (scSource = "heuristic" /\ scEval # None) =>
    LET ev == scEvidence[1]
        e == scEval[1]
        load == Len(ev.screenshots) >= 1 /\ Len(ev.errors) = 0
        controls == \E i \in DOMAIN ev.interactions : ev.interactions[i].success
        crashFree == Len(ev.errors) = 0
        score == 30 * Points(load) + 40 * Points(controls) + 30 * Points(crashFree)
    IN /\ e.load_successful.result = load
       /\ e.controls_responsive.result = controls
       /\ e.no_crashes.result = crashFree
       /\ e.playability_score = score
       /\ e.confidence = (IF score >= 60 THEN 60 ELSE score) * ConfUnit
       /\ Len(e.issues) = Points(~load) + Points(~controls) + Points(~crashFree)

\* the heuristic evaluated an Evidence with screenshots, no error and a
\* failed interaction after a successful one: score 100, no issue
C31_Witness ==
  /\ scSource = "heuristic"
  /\ scEval # None
  /\ Len(scEvidence[1].interactions) = 2
  /\ SuccessCount(scEvidence[1].interactions) = 1
  /\ scEval[1].playability_score = 100
  /\ scEval[1].issues = <<>>

\* the heuristic confidence of an Evidence as the sum of its five tiers, in
\* units of 1/100 * 1/ConfUnit, times the number of interactions (1 if none)
TierSum(ev) ==
  LET shots == Len(ev.screenshots)
      errs == Len(ev.errors)
      total == Len(ev.interactions)
      scale == IF total = 0 THEN 1 ELSE total
      shotTier == CASE shots >= 5 -> 20 [] shots \in 3..4 -> 15
                    [] shots \in 1..2 -> 10 [] OTHER -> 0
      logTier == IF ev.console_logs # <<>> THEN 15 ELSE 0
      errorTier == CASE errs = 0 -> 25 [] errs \in 1..2 -> 15 [] OTHER -> 5
      uiTier == CASE ev.ui_detection = None -> 0
                  [] ev.ui_detection # None
                       /\ (ev.ui_detection[1].buttons # <<>>
                             \/ ev.ui_detection[1].canvas # <<>>) -> 20
                  [] OTHER -> 10
  IN (shotTier + logTier + errorTier + uiTier) * ConfUnit * scale
       + 20 * ConfUnit * SuccessCount(ev.interactions)

\* C32: the reported confidence is 0.7 * evaluation.confidence + 0.3 * h
\* clamped to [0, 1], where h is the sum of the screenshot, console-log,
\* error, UI and interaction tiers of the Evidence divided by 100, and h
\* lies in [0.05, 1].
C32_ConfidenceFormula ==
  (scPc = "built" /\ scReport[1].kind = "return") =>
    LET ev == scEvidence[1]
        total == Len(ev.interactions)
        scale == IF total = 0 THEN 1 ELSE total
        combined == 7 * scEval[1].confidence * scale + 3 * TierSum(ev)
        reported == 10 * scReport[1].value.confidence * scale
    IN /\ TierSum(ev) >= 5 * ConfUnit * scale
       /\ TierSum(ev) <= 100 * ConfUnit * scale
       /\ reported = IF combined < 0 THEN 0
                     ELSE IF combined > 10 * ConfScale * scale
                          THEN 10 * ConfScale * scale
                          ELSE combined

\* a report for an Evidence with a UI detection without button and canvas
\* and one successful interaction out of two
C32_Witness ==
  /\ scPc = "built"
  /\ scReport[1].kind = "return"
  /\ scEvidence[1].ui_detection # None
  /\ scEvidence[1].ui_detection[1].buttons = <<>>
  /\ scEvidence[1].ui_detection[1].canvas = <<>>
  /\ Len(scEvidence[1].interactions) = 2
  /\ SuccessCount(scEvidence[1].interactions) = 1
  /\ scSource = "llm"

\* a value brought to the nearest bound of [lo, hi]
Clamp(lo, hi, x) == IF x < lo THEN lo ELSE IF x > hi THEN hi ELSE x

\* C33: an overall confidence or a playability_score that the model's JSON
\* carries out of range arrives in the parsed EvaluationResult clamped to the
\* nearest bound of [0, 1] and [0, 100]; values in range are kept.
C33_ParsedValuesClamped ==
  (evalSource = "llm" /\ evaluation # None) =>
    /\ llmReply[1].json.confidence # None =>
         evaluation[1].confidence = Clamp(0, ConfScale, llmReply[1].json.confidence[1])
    /\ llmReply[1].json.playability_score # None =>
         evaluation[1].playability_score =
           Clamp(0, 100, llmReply[1].json.playability_score[1])

\* C34: in every report built from an Evidence, ui_elements_detected is the
\* number of buttons plus canvases plus menus of the UI detection (0 without
\* one), and interactions_count, errors_count and screenshots_count are the
\* lengths of the Evidence's lists.
C34_MetadataCounts ==
  (scPc = "built" /\ scReport[1].kind = "return") =>
    LET ev == scEvidence[1]
        m == scReport[1].value.metadata
    IN /\ m.ui_elements_detected =
            IF ev.ui_detection = None THEN 0
            ELSE Len(ev.ui_detection[1].buttons) + Len(ev.ui_detection[1].canvas)
                   + Len(ev.ui_detection[1].menus)
       /\ m.interactions_count = Len(ev.interactions)
       /\ m.errors_count = Len(ev.errors)
       /\ m.screenshots_count = Len(ev.screenshots)

\* the delays, in milliseconds, that the retries of each kind wait, in order
DelaySchedule ==
  [k \in ErrorType |->
     CASE k \in {"API_FAILURE", "LLM_FAILURE"} -> <<2000, 4000>>
       [] k = "BROWSER_CRASH" -> <<5000, 5000>>
       [] k = "NETWORK_ERROR" -> <<3000, 3000, 3000>>
       [] k = "TIMEOUT" -> <<1000>>
       [] OTHER -> <<>>]

C36_HeuristicWithErrorsIsPartial ==
  (scPc = "built" /\ scSource = "heuristic" /\ scReport[1].kind = "return") =>
    /\ Len(scEvidence[1].errors) >= 1 => scReport[1].value.status = "partial"
    /\ scReport[1].value.status = "fail" => scReport[1].value.playability_score = 60

\* a heuristic report for an Evidence with an error, screenshots, console
\* logs, a UI detection and successful interactions is partial with score 40
C36_Witness ==
  /\ scPc = "built"
  /\ scSource = "heuristic"
  /\ Len(scEvidence[1].errors) = 1
  /\ Len(scEvidence[1].screenshots) >= 5
  /\ scEvidence[1].console_logs # <<>>
  /\ scEvidence[1].ui_detection # None
  /\ scReport[1].value.playability_score = 40
  /\ scReport[1].value.status = "partial"

\* a heuristic report with status fail and score 60
C36_WitnessFail ==
  /\ scPc = "built"
  /\ scSource = "heuristic"
  /\ scReport[1].value.status = "fail"
  /\ scReport[1].value.playability_score = 60

\* the indices of a screenshot list, in the order of the list
Indices(shots) == [i \in DOMAIN shots |-> shots[i].index]

\* a click on the start button that succeeded is among the recorded
\* interactions of this run
ClickedStart(records) ==
  \E i \in DOMAIN records : records[i].type = "click" /\ records[i].success

\* C37: every takeScreenshot call appends exactly one entry to the screenshot
\* list, whether the capture succeeded or failed, so the Evidence of every
\* run that reaches evidence capture, also a later run on the same runner,
\* holds 3 or 4 screenshots: the indices 0, 2, 3, and index 1 exactly when a
\* start button was clicked successfully.
C37_ThreeOrFourScreenshots ==
  /\ [][(pc \in {"observe", "midshot", "finalshot"} /\ pc' # pc) =>
          (Len(screenshots') = Len(screenshots) + 1)]_vars
  /\ [](evidence # None =>
          /\ Len(evidence[1].screenshots) \in {3, 4}
          /\ Indices(evidence[1].screenshots) \in {<<0, 2, 3>>, <<0, 1, 2, 3>>}
          /\ (Len(evidence[1].screenshots) = 4) <=>
               ClickedStart(SubSeq(evidence[1].interactions,
                                   carried.interactions + 1,
                                   Len(evidence[1].interactions))))

\* the report artifact has been written by saveArtifacts
ReportWritten == Len(saved) = Len(ArtifactKinds)

\* C38: the report is written at most once per run and only after it passed
\* validation; when it was written, run() returns exactly that report, whose
\* status is not error; an error result is never written; and a failed
\* artifact write makes run() return an error result, not the built report.
C38_ReportWrittenOnceAndReturned ==
  /\ [][ReportWritten => (saved' = saved)]_vars
  /\ [][(saved' # saved) => (pc = "save" /\ report # None)]_vars
  /\ [](ReportWritten =>
          /\ report # None
          /\ validate(report[1])
          /\ report[1].status # "error")
  /\ []((pc = "done" /\ ReportWritten) =>
          (outcome = "resolved" /\ result = report))
  /\ []((pc = "done" /\ result # None /\ result[1].status = "error") =>
          ~ReportWritten)
  /\ []((pc = "done" /\ report # None /\ ~ReportWritten) =>
          /\ outcome = "resolved"
          /\ result # None
          /\ result[1].status = "error"
          /\ result # report)

\* a run that wrote its report and returned it
C38_Witness ==
  /\ pc = "done"
  /\ ReportWritten
  /\ result = report
  /\ result[1].status = "partial"

\* a run whose third artifact write failed after the report was built: it
\* returns an error result
C38_WitnessSaveFailed ==
  /\ pc = "done"
  /\ report # None
  /\ saved = SubSeq(ArtifactKinds, 1, 2)
  /\ result # None
  /\ result[1].status = "error"

\* C39: however the getConfig() calls issued before the first load has
\* completed interleave, loadConfig is invoked exactly once; when it
\* succeeds every caller receives the same configuration object, and later
\* calls return that object without loading again (no resetConfig() call).
C39_ConfigLoadedOnce ==
  cfgResets = 0 =>
    /\ cfgLoads <= 1
    /\ (\E c \in ConfigCallers : cfgPc[c] # "idle") => cfgLoads = 1
    /\ \A c \in ConfigCallers :
         /\ cfgGot[c] # None => cfgGot[c] = Some(1)
         /\ cfgPc[c] = "returned" => cfgGot[c] = Some(1)
         /\ cfgPc[c] = "threw" => cfgPromises[1] = "rejected"

\* two calls were suspended on the promise of the one load and got its
\* object, and a later call got the same object without awaiting
C39_Witness ==
  /\ cfgResets = 0
  /\ cfgLoads = 1
  /\ cfgAwaited[1] = 1 /\ cfgPc[1] = "returned" /\ cfgGot[1] = Some(1)
  /\ cfgAwaited[2] = 1 /\ cfgPc[2] = "returned" /\ cfgGot[2] = Some(1)
  /\ cfgAwaited[3] = 0 /\ cfgPc[3] = "returned" /\ cfgGot[3] = Some(1)

\* C40: the first getConfig() call after resetConfig() invokes loadConfig,
\* whether the earlier load succeeded, failed or is still pending.
C40_ResetForcesReload ==
  [][(cfgFresh /\ ~cfgFresh') => (cfgLoads' = cfgLoads + 1)]_vars
====
